---- MODULE Spec2Model ----
(***************************************************************************)
(* Form handlers of the Foris administration interface                     *)
(* (src/foris/config_handlers/base.py).                                    *)
(*                                                                         *)
(* One behaviour is one request: a handler is constructed with the         *)
(* submitted data, its form is built lazily from the configuration         *)
(* snapshot, and save() validates the form and runs its callbacks.         *)
(*                                                                         *)
(* Text values are sequences of atoms: <<>> is the empty string, " " is    *)
(* the space character and any other atom is a run of non-space            *)
(* characters, so <<"a", " ", "b">> is the string "a b".  Checkbox values  *)
(* are booleans.  None is Python's None.                                   *)
(***************************************************************************)
EXTENDS Naturals, Sequences, FiniteSets, TLC

VARIABLES
  kind,            \* the handler class
  change,          \* PasswordHandler.change
  cfg,             \* the configuration snapshot: path -> node
  stats,           \* stats.data['wireless-cards']
  pkg_list,        \* the updater's package lists
  data,            \* BaseConfigHandler.data: the submitted input
  form_cache,      \* BaseConfigHandler.__form_cache
  get_form_calls,  \* how many times get_form() ran
  form_reads,      \* how many times the form property was read
  saves,           \* how many times save() ran
  ret,             \* what the last save() returned
  valid,           \* form.valid
  errors,          \* the form's per-field errors
  results,         \* what the callbacks of the last save() returned, in order
  trace            \* callbacks entered and left and external calls made, in order

vars == <<kind, change, cfg, stats, pkg_list, data, form_cache, get_form_calls,
          form_reads, saves, ret, valid, errors, results, trace>>

(* ------------------------------ bounds -------------------------------- *)

\* save() calls per handler instance
MaxSaves == 1
\* accesses of the form property per handler instance
MaxFormReads == 1
\* extra callbacks handed to one save()
MaxExtra == 1

(* ------------------------------ values -------------------------------- *)

None == <<"<None>">>
S(a) == <<a>>
SP == " "

RECURSIVE StrLen(_)
StrLen(s) == IF s = <<>> THEN 0 ELSE Len(Head(s)) + StrLen(Tail(s))

\* Python truthiness of a text value or None
Truthy(v) == v # <<>> /\ v # None

\* "%s" % v
Fmt(v) == IF v = None THEN S("None") ELSE v

RECURSIVE lstrip(_)
lstrip(s) == IF s # <<>> /\ Head(s) = SP THEN lstrip(Tail(s)) ELSE s

RECURSIVE rstrip(_)
rstrip(s) == IF s # <<>> /\ s[Len(s)] = SP THEN rstrip(SubSeq(s, 1, Len(s) - 1)) ELSE s

\* str.strip()
strip(s) == rstrip(lstrip(s))

\* str.split(" "): the pieces between single spaces, empty pieces kept
RECURSIVE split(_)
split(s) ==
  IF \A i \in DOMAIN s : s[i] # SP THEN <<s>>
  ELSE LET i == CHOOSE j \in DOMAIN s : s[j] = SP /\ \A k \in 1..(j - 1) : s[k] # SP
       IN <<SubSeq(s, 1, i - 1)>> \o split(SubSeq(s, i + 1, Len(s)))

\* Finite function from pairs
Has(f, k) == k \in DOMAIN f
Get(f, k, d) == IF k \in DOMAIN f THEN f[k] ELSE d

EmptyFn == [x \in {} |-> <<>>]

(* --------------------- patch vocabulary (uci_raw) ---------------------- *)

\* Section.add(Option(name, value))
OpSet(config, section, stype, name, val) ==
  [config |-> config, section |-> section, stype |-> stype,
   op |-> "set", name |-> name, val |-> val]

\* Section.add_removal(Option(name, None)) / Section.add_removal(List(name))
OpRemove(config, section, stype, name) ==
  [config |-> config, section |-> section, stype |-> stype,
   op |-> "remove", name |-> name, val |-> <<>>]

\* Section.add_replace(List(name)) with its Values
OpReplace(config, section, stype, name, vals) ==
  [config |-> config, section |-> section, stype |-> stype,
   op |-> "replace", name |-> name, val |-> vals]

\* Section.add(List(name)) with its Values
OpAddList(config, section, stype, name, vals) ==
  [config |-> config, section |-> section, stype |-> stype,
   op |-> "add_list", name |-> name, val |-> vals]

\* Value(index, content)
Value(i, c) == [index |-> i, content |-> c]

(* ---------------------------- callbacks -------------------------------- *)

\* What a callback did: the (action, payload) pair it returned and the external
\* calls it made before returning.  payload is "patch", "dict" or "none".
CbResult(action, payload, patch, result, calls) ==
  [action |-> action, payload |-> payload, patch |-> patch, result |-> result,
   calls |-> calls]

\* A callback that raised exc after making calls: it returns no pair.
Raised(exc, calls) ==
  [action |-> "<raised>", payload |-> exc, patch |-> <<>>, result |-> <<>>,
   calls |-> calls]

ResultItem(key, val) == [key |-> key, val |-> val]

Call(fn, arg) == [fn |-> fn, arg |-> arg]

\* an external call whose answer the callback uses
CallAnswer(fn, arg, ans) == [fn |-> fn, arg |-> arg, ans |-> ans]

(* ----------------------------- fields ---------------------------------- *)

Field(name, type, required, validators, requires, path, preproc, default) ==
  [name |-> name, type |-> type, required |-> required, validators |-> validators,
   requires |-> requires, path |-> path, preproc |-> preproc, default |-> default]

Req(name, value) == [name |-> name, value |-> value]

V(v, a, b) == [v |-> v, a |-> a, b |-> b]

Form(name, sections, fields, callbacks) ==
  [exists |-> TRUE, name |-> name, sections |-> sections,
   fields |-> fields, callbacks |-> callbacks]

\* get_form() returned None
NoForm ==
  [exists |-> FALSE, name |-> "", sections |-> <<>>, fields |-> <<>>, callbacks |-> <<>>]

(* -------------------- validators (foris.validators) -------------------- *)

ValidIPv4 == {S("192.0.2.1"), S("192.0.2.254"), S("192.168.1.1"), S("8.8.8.8")}
ValidNetmask == {S("255.255.255.0")}
ValidIPv6 == {S("2001:db8::1")}
ValidIPv6Prefix == {S("2001:db8::1/64"), S("2001:db8::/64")}
ValidMac == {S("00:11:22:33:44:55")}
ValidSenderName == {S("turris")}
ValidTime == {S("03:30")}

\* int(s) of the decimal atoms the model uses
IntTable ==
  ("0" :> 0) @@ ("1" :> 1) @@ ("01" :> 1) @@ ("2" :> 2) @@ ("3" :> 3) @@ ("8" :> 8) @@ ("10" :> 10) @@ ("11" :> 11)
  @@ ("25" :> 25) @@ ("48" :> 48) @@ ("100" :> 100) @@ ("150" :> 150) @@ ("848" :> 848)
  @@ ("4096" :> 4096)

IsInt(v) == Len(v) = 1 /\ v[1] \in DOMAIN IntTable
IntOf(v) == IntTable[v[1]]

\* what stands for the value of a field whose extraction raised ValueError
ValueError == <<"<ValueError>">>

\* lambda val: int(val.value)
int_value(node) == IF IsInt(node) THEN IntOf(node) ELSE ValueError

\* lambda val: bool(int(val.value))
bool_int(node) == IF IsInt(node) THEN IntOf(node) # 0 ELSE ValueError

\* lambda val: not bool(int(val.value))
not_bool_int(node) == IF IsInt(node) THEN ~(IntOf(node) # 0) ELSE ValueError

\* required: empty is invalid
IsEmpty(v) == v = <<>> \/ v = None

\* One validator's verdict on the value of field `name` among `values`.
ValidatorOK(vd, name, values) ==
  LET val == values[name] IN
  CASE vd.v = "EqualTo" -> values[vd.a] = values[vd.b]
    [] vd.v = "RequiredWithOtherFields" ->
         \/ \A i \in DOMAIN vd.a : Has(values, vd.a[i]) /\ ~IsEmpty(values[vd.a[i]])
         \/ \A i \in DOMAIN vd.a : ~Has(values, vd.a[i]) \/ IsEmpty(values[vd.a[i]])
    [] IsEmpty(val) /\ vd.v \notin {"EqualTo", "RequiredWithOtherFields"} -> TRUE
    [] vd.v = "LenRange" -> vd.a <= StrLen(val) /\ StrLen(val) <= vd.b
    [] vd.v = "ByteLenRange" -> vd.a <= StrLen(val) /\ StrLen(val) <= vd.b
    [] vd.v = "IPv4" -> val \in ValidIPv4
    [] vd.v = "IPv4Netmask" -> val \in ValidNetmask
    [] vd.v = "IPv6" -> val \in ValidIPv6
    [] vd.v = "IPv6Prefix" -> val \in ValidIPv6Prefix
    [] vd.v = "AnyIP" -> val \in ValidIPv4 \cup ValidIPv6
    [] vd.v = "MacAddress" -> val \in ValidMac
    [] vd.v = "PositiveInteger" -> IsInt(val)
    [] vd.v = "InRange" -> IsInt(val) /\ vd.a <= IntOf(val) /\ IntOf(val) <= vd.b
    [] vd.v = "RegExp" -> val \in ValidSenderName
    [] vd.v = "Time" -> val \in ValidTime

(* ---------------------------- PasswordHandler -------------------------- *)

\* beaker pbkdf2.crypt(word, salt): the formatted hash "$p5k2$<iterations>$<salt>$<digest>",
\* the digest standing for PBKDF2 of the word under the salt
crypt(word, salt) == <<"$p5k2$3e8$", salt, "$", "PBKDF2(", salt, ",">> \o word \o <<")">>

\* the salt pbkdf2.crypt(word, salt=formatted_hash) extracts from a formatted hash
salt_of(formatted_hash) == formatted_hash[2]

PasswordHandler_get_form(ch) ==
  Form("password", <<"set_password">>,
       (IF ch THEN <<Field("old_password", "text", FALSE, <<>>, <<>>, "", "", None)>>
        ELSE <<>>)
       \o
       << Field("password", "text", TRUE, <<V("LenRange", 6, 128)>>, <<>>, "", "", None),
          Field("password_validation", "text", TRUE,
                <<V("EqualTo", "password", "password_validation")>>, <<>>, "", "", None),
          Field("set_system_pw", "checkbox", FALSE, <<>>, <<>>, "", "", FALSE) >>,
       <<"pw_form_cb">>)

\* pw_form_cb that does not check the old password
pw_form_cb_unchecked(d, ch, config, salt) ==
  CbResult("edit_config", "patch",
           <<OpSet("foris", S("auth"), "config", "password", crypt(d["password"], salt))>>,
           <<>>,
           IF d["set_system_pw"] = TRUE
           THEN <<Call("set_password", <<S("root"), d["password"]>>)>>
           ELSE <<>>)

\* storing the password as submitted
new_password_plain(word, salt) == word

\* new_password_hash = pbkdf2.crypt(data['password'], iterations=1000)
new_password_hash(word, salt) == crypt(word, salt)

\* pw_form_cb that sets the system password whatever set_system_pw is
pw_form_cb_sets_always(d, ch, config, salt) ==
  IF /\ ch
     /\ Has(config, "uci.foris.auth.password")
     /\ config["uci.foris.auth.password"]
          # crypt(d["old_password"], salt_of(config["uci.foris.auth.password"]))
  THEN CbResult("save_result", "dict", <<>>,
                <<ResultItem("wrong_old_password", TRUE)>>, <<>>)
  ELSE CbResult("edit_config", "patch",
                <<OpSet("foris", S("auth"), "config", "password", crypt(d["password"], salt))>>,
                <<>>,
                <<Call("set_password", <<S("root"), d["password"]>>)>>)

pw_form_cb(d, ch, config, salt) ==
  IF /\ ch
     /\ Has(config, "uci.foris.auth.password")
     /\ config["uci.foris.auth.password"]
          # crypt(d["old_password"], salt_of(config["uci.foris.auth.password"]))
  THEN CbResult("save_result", "dict", <<>>,
                <<ResultItem("wrong_old_password", TRUE)>>, <<>>)
  ELSE CbResult("edit_config", "patch",
                <<OpSet("foris", S("auth"), "config", "password",
                        new_password_hash(d["password"], salt))>>,
                <<>>,
                IF d["set_system_pw"] = TRUE
                THEN <<Call("set_password", <<S("root"), d["password"]>>)>>
                ELSE <<>>)

(* ------------------------- SystemPasswordHandler ----------------------- *)

\* the form without the EqualTo validator
SystemPasswordHandler_get_form_unchecked ==
  Form("system_password", <<"set_password">>,
       << Field("password", "text", TRUE, <<V("LenRange", 6, 128)>>, <<>>, "", "", None),
          Field("password_validation", "text", TRUE, <<>>, <<>>, "", "", None) >>,
       <<"system_pw_form_cb">>)

SystemPasswordHandler_get_form ==
  Form("system_password", <<"set_password">>,
       << Field("password", "text", TRUE, <<V("LenRange", 6, 128)>>, <<>>, "", "", None),
          Field("password_validation", "text", TRUE,
                <<V("EqualTo", "password", "password_validation")>>, <<>>, "", "", None) >>,
       <<"system_pw_form_cb">>)

system_pw_form_cb(d) ==
  CbResult("none", "none", <<>>, <<>>, <<Call("set_password", <<S("root"), d["password"]>>)>>)

(* --------------------------- MaintenanceHandler ------------------------ *)

MaintenanceHandler_get_form ==
  Form("maintenance", <<"restore_backup">>,
       << Field("backup_file", "file", TRUE, <<>>, <<>>, "", "", None) >>,
       <<"maintenance_form_cb">>)

\* maintenance_form_cb that reports no new address whatever the call answered
maintenance_form_cb_no_ip(d, new_ip) ==
  CbResult("save_result", "dict", <<>>, <<ResultItem("new_ip", None)>>,
           <<CallAnswer("load_config_backup", <<d["backup_file"]>>, new_ip)>>)

\* new_ip is what client.load_config_backup returned
maintenance_form_cb(d, new_ip) ==
  CbResult("save_result", "dict", <<>>, <<ResultItem("new_ip", new_ip)>>,
           <<CallAnswer("load_config_backup", <<d["backup_file"]>>, new_ip)>>)

(* ------------------------------ TimeHandler ---------------------------- *)

TimeHandler_get_form ==
  Form("time", <<"set_time">>,
       << Field("time", "text", FALSE, <<>>, <<>>, "time", "local", None) >>,
       <<"time_form_cb">>)

time_form_cb(d) ==
  CbResult("none", "none", <<>>, <<>>, <<Call("set_time", <<d["time"]>>)>>)

(* ------------------------------- DNSHandler ---------------------------- *)

DNSHandler_get_form ==
  Form("dns", <<"set_dns">>,
       << Field("forward_upstream", "checkbox", FALSE, <<>>, <<>>,
                "uci.unbound.server.forward_upstream", "boolint", TRUE) >>,
       <<"dns_form_cb">>)

dns_form_cb(d) ==
  CbResult("edit_config", "patch",
           <<OpSet("unbound", S("server"), "unbound", "forward_upstream",
                   d["forward_upstream"])>>,
           <<>>, <<>>)

(* ------------------------------- LanHandler ---------------------------- *)

LanHandler_get_form ==
  Form("lan", <<"set_lan">>,
       << Field("lan_ipaddr", "text", FALSE, <<V("IPv4", 0, 0)>>, <<>>,
                "uci.network.lan.ipaddr", "", None),
          Field("dhcp_enabled", "checkbox", FALSE, <<>>, <<>>,
                "uci.dhcp.lan.ignore", "notboolint", TRUE),
          Field("dhcp_min", "text", FALSE, <<>>, <<Req("dhcp_enabled", TRUE)>>,
                "uci.dhcp.lan.start", "", None),
          Field("dhcp_max", "text", FALSE, <<>>, <<Req("dhcp_enabled", TRUE)>>,
                "uci.dhcp.lan.limit", "", None) >>,
       <<"lan_form_cb">>)

\* lan_form_cb that writes the DHCP range whether or not DHCP is enabled
lan_form_cb_range_always(d) ==
  IF d["lan_ipaddr"] = None THEN Raised("TypeError", <<>>) ELSE
  CbResult("edit_config", "patch",
           << OpReplace("dhcp", S("lan"), "dhcp", "dhcp_option",
                        <<Value(0, S("6,") \o d["lan_ipaddr"])>>),
              OpSet("network", S("lan"), "interface", "ipaddr", d["lan_ipaddr"]),
              OpSet("dhcp", S("lan"), "dhcp", "ignore",
                    IF d["dhcp_enabled"] THEN S("0") ELSE S("1")),
              OpSet("dhcp", S("lan"), "dhcp", "start", Get(d, "dhcp_min", <<>>)),
              OpSet("dhcp", S("lan"), "dhcp", "limit", Get(d, "dhcp_max", <<>>)) >>,
           <<>>, <<>>)

\* "6," + data['lan_ipaddr'] raises TypeError when lan_ipaddr is None
lan_form_cb(d) ==
  IF d["lan_ipaddr"] = None THEN Raised("TypeError", <<>>) ELSE
  CbResult("edit_config", "patch",
           << OpReplace("dhcp", S("lan"), "dhcp", "dhcp_option",
                        <<Value(0, S("6,") \o d["lan_ipaddr"])>>),
              OpSet("network", S("lan"), "interface", "ipaddr", d["lan_ipaddr"]) >>
           \o
           (IF d["dhcp_enabled"]
            THEN << OpSet("dhcp", S("lan"), "dhcp", "ignore", S("0")),
                    OpSet("dhcp", S("lan"), "dhcp", "start", d["dhcp_min"]),
                    OpSet("dhcp", S("lan"), "dhcp", "limit", d["dhcp_max"]) >>
            ELSE << OpSet("dhcp", S("lan"), "dhcp", "ignore", S("1")) >>),
           <<>>, <<>>)

(* ------------------------------- WanHandler ---------------------------- *)

WAN_DHCP == S("dhcp")
WAN_STATIC == S("static")
WAN_PPPOE == S("pppoe")

\* extract_dns_item that ignores the index
extract_dns_item_first(dns_string, index) == split(dns_string)[1]

extract_dns_item(dns_string, index) ==
  IF index + 1 <= Len(split(dns_string)) THEN split(dns_string)[index + 1] ELSE None

\* get_smrtd_param(param_name)(conn_list): conn_list is the list's contents,
\* or None when the list is missing
get_smrtd_param(param_name, conn_list) ==
  LET parts == IF conn_list # None THEN split(conn_list[1]) ELSE <<None, None, None>>
  IN CASE param_name = "VLAN" -> parts[1]
       [] param_name = "VPI" -> parts[2]
       [] param_name = "VCI" -> parts[3]

\* re.match("eth2.(\d+)", ifname): eth2, any one character, digits
get_smrtd_vlan(config) ==
  LET ifname == Get(config, "uci.network.wan.ifname", None)
  IN IF /\ Truthy(ifname)
        /\ Len(ifname) >= 3
        /\ ifname[1] = "eth2"
        /\ Len(ifname[2]) = 1
        /\ ifname[3] \in DOMAIN IntTable
     THEN S(ifname[3])
     ELSE get_smrtd_param("VLAN", Get(config, "uci.smrtd.eth2.connections", None))

wan_proto_field ==
  << Field("proto", "enum", FALSE, <<>>, <<>>, "uci.network.wan.proto", "", WAN_DHCP) >>

\* the static IPv4 fields without their requires
wan_static_ipv4_fields_always ==
  << Field("ipaddr", "text", TRUE, <<V("IPv4", 0, 0)>>, <<>>,
           "uci.network.wan.ipaddr", "", None),
     Field("netmask", "text", TRUE, <<V("IPv4Netmask", 0, 0)>>, <<>>,
           "uci.network.wan.netmask", "", None),
     Field("gateway", "text", TRUE, <<V("IPv4", 0, 0)>>, <<>>,
           "uci.network.wan.gateway", "", None) >>

wan_static_ipv4_fields ==
  << Field("ipaddr", "text", TRUE, <<V("IPv4", 0, 0)>>, <<Req("proto", WAN_STATIC)>>,
           "uci.network.wan.ipaddr", "", None),
     Field("netmask", "text", TRUE, <<V("IPv4Netmask", 0, 0)>>, <<Req("proto", WAN_STATIC)>>,
           "uci.network.wan.netmask", "", None),
     Field("gateway", "text", TRUE, <<V("IPv4", 0, 0)>>, <<Req("proto", WAN_STATIC)>>,
           "uci.network.wan.gateway", "", None) >>

wan_dns_fields ==
  << Field("dns1", "text", FALSE, <<V("AnyIP", 0, 0)>>, <<Req("proto", WAN_STATIC)>>,
           "uci.network.wan.dns", "dns0", None),
     Field("dns2", "text", FALSE, <<V("AnyIP", 0, 0)>>, <<Req("proto", WAN_STATIC)>>,
           "uci.network.wan.dns", "dns1", None) >>

wan_static_ipv6_fields ==
  << Field("static_ipv6", "checkbox", FALSE, <<>>, <<Req("proto", WAN_STATIC)>>,
           "uci.network.wan.ip6addr", "bool", FALSE),
     Field("ip6addr", "text", TRUE, <<V("IPv6Prefix", 0, 0)>>,
           <<Req("proto", WAN_STATIC), Req("static_ipv6", TRUE)>>,
           "uci.network.wan.ip6addr", "", None),
     Field("ip6gw", "text", FALSE, <<V("IPv6", 0, 0)>>,
           <<Req("proto", WAN_STATIC), Req("static_ipv6", TRUE)>>,
           "uci.network.wan.ip6gw", "", None),
     Field("ip6prefix", "text", FALSE, <<V("IPv6Prefix", 0, 0)>>,
           <<Req("proto", WAN_STATIC), Req("static_ipv6", TRUE)>>,
           "uci.network.wan.ip6prefix", "", None) >>

wan_pppoe_fields ==
  << Field("username", "text", FALSE, <<>>, <<Req("proto", WAN_PPPOE)>>,
           "uci.network.wan.username", "", None),
     Field("password", "text", FALSE, <<>>, <<Req("proto", WAN_PPPOE)>>,
           "uci.network.wan.password", "", None),
     Field("ppp_ipv6", "checkbox", FALSE, <<>>, <<Req("proto", WAN_PPPOE)>>,
           "uci.network.wan.ipv6", "boolint", FALSE) >>

vpi_vci_validator == V("RequiredWithOtherFields", <<"smrt_vpi", "smrt_vci">>, 0)

wan_smrt_fields ==
  << Field("has_smrtd", "text", FALSE, <<>>, <<>>, "", "", S("1")),
     Field("use_smrt", "checkbox", FALSE, <<>>, <<Req("proto", WAN_PPPOE)>>,
           "uci.smrtd.global.enabled", "boolint", FALSE),
     Field("smrt_vlan", "text", FALSE,
           <<V("PositiveInteger", 0, 0), V("InRange", 1, 4095)>>,
           <<Req("use_smrt", TRUE)>>, "", "smrtd_vlan", None),
     Field("smrt_vpi", "text", FALSE,
           <<V("PositiveInteger", 0, 0), V("InRange", 0, 255), vpi_vci_validator>>,
           <<Req("use_smrt", TRUE)>>, "uci.smrtd.eth2.connections", "smrtd_VPI", None),
     Field("smrt_vci", "text", FALSE,
           <<V("PositiveInteger", 0, 0), V("InRange", 32, 65535), vpi_vci_validator>>,
           <<Req("use_smrt", TRUE)>>, "uci.smrtd.eth2.connections", "smrtd_VCI", None) >>

\* the MAC address fields with macaddr declared ahead of custom_mac
wan_mac_fields_swapped ==
  << Field("macaddr", "text", TRUE, <<V("MacAddress", 0, 0)>>, <<Req("custom_mac", TRUE)>>,
           "uci.network.wan.macaddr", "", None),
     Field("custom_mac", "checkbox", FALSE, <<>>, <<>>,
           "uci.network.wan.macaddr", "bool", FALSE) >>

wan_mac_fields ==
  << Field("custom_mac", "checkbox", FALSE, <<>>, <<>>,
           "uci.network.wan.macaddr", "bool", FALSE),
     Field("macaddr", "text", TRUE, <<V("MacAddress", 0, 0)>>, <<Req("custom_mac", TRUE)>>,
           "uci.network.wan.macaddr", "", None) >>

\* has_smrtd = wan_form.nuci_config.find_child("uci.smrtd") is not None
wan_has_smrtd(config) == Has(config, "uci.smrtd")

WanHandler_get_form(config) ==
  Form("wan", <<"set_wan">>,
       wan_proto_field \o wan_static_ipv4_fields \o wan_dns_fields
       \o wan_static_ipv6_fields \o wan_pppoe_fields
       \o (IF wan_has_smrtd(config) THEN wan_smrt_fields ELSE <<>>)
       \o wan_mac_fields,
       <<"wan_form_cb">>)

\* the joined DNS servers, not stripped
wan_dns_string_unstripped(d) == Get(d, "dns1", <<>>) \o <<SP>> \o Get(d, "dns2", <<>>)

\* " ".join([data.get("dns1", ""), data.get("dns2", "")]).strip()
wan_dns_string(d) == strip(Get(d, "dns1", <<>>) \o <<SP>> \o Get(d, "dns2", <<>>))

\* the macaddr operations, with a removal added whatever custom_mac is
wan_mac_ops_both(d) ==
  (IF d["custom_mac"] = TRUE
   THEN <<OpSet("network", S("wan"), "interface", "macaddr", d["macaddr"])>>
   ELSE <<>>)
  \o <<OpRemove("network", S("wan"), "interface", "macaddr")>>

\* if data['custom_mac'] is True: add macaddr, else: add_removal
wan_mac_ops(d) ==
  IF d["custom_mac"] = TRUE
  THEN <<OpSet("network", S("wan"), "interface", "macaddr", d["macaddr"])>>
  ELSE <<OpRemove("network", S("wan"), "interface", "macaddr")>>

\* " ".join([..]) raises TypeError when dns1 or dns2 is None
wan_dns_raises(d) ==
  d["proto"] = WAN_STATIC /\ (Get(d, "dns1", <<>>) = None \/ Get(d, "dns2", <<>>) = None)

wan_form_cb(d, config) ==
  LET has_smrtd == wan_has_smrtd(config)
      W(name, val) == OpSet("network", S("wan"), "interface", name, val)
      WR(name) == OpRemove("network", S("wan"), "interface", name)
      mac == wan_mac_ops(d)
      dns_string == wan_dns_string(d)
      mode ==
        IF d["proto"] = WAN_PPPOE
        THEN << W("username", d["username"]), W("password", d["password"]),
                W("ipv6", d["ppp_ipv6"]) >>
        ELSE IF d["proto"] = WAN_STATIC
        THEN << W("ipaddr", d["ipaddr"]), W("netmask", d["netmask"]),
                W("gateway", d["gateway"]), W("dns", dns_string) >>
             \o (IF Get(d, "static_ipv6", FALSE) = TRUE
                 THEN << W("ip6addr", d["ip6addr"]), W("ip6gw", d["ip6gw"]),
                         W("ip6prefix", d["ip6prefix"]) >>
                 ELSE << WR("ip6addr"), WR("ip6gw"), WR("ip6prefix") >>)
        ELSE <<>>
      ucollect_ifname == IF d["proto"] = WAN_PPPOE THEN S("pppoe-wan") ELSE S("eth2")
      use_smrt == Get(d, "use_smrt", FALSE)
      smrt_vlan == IF use_smrt /\ ~Truthy(Get(d, "smrt_vlan", None))
                   THEN S("848")
                   ELSE Get(d, "smrt_vlan", None)
      wan_ifname == IF use_smrt THEN <<"eth2", ".">> \o Fmt(smrt_vlan) ELSE S("eth2")
      vpi == Get(d, "smrt_vpi", None)
      vci == Get(d, "smrt_vci", None)
      smrt ==
        IF has_smrtd
        THEN << OpSet("smrtd", S("eth2"), "interface", "name", S("eth2")) >>
             \o (IF Truthy(vpi) /\ Truthy(vci)
                 THEN << OpAddList("smrtd", S("eth2"), "interface", "connections",
                                   <<Value(1, Fmt(smrt_vlan) \o <<SP>> \o vpi
                                                \o <<SP>> \o vci)>>) >>
                 ELSE IF use_smrt
                 THEN << OpRemove("smrtd", S("eth2"), "interface", "connections") >>
                 ELSE <<>>)
             \o << OpSet("smrtd", S("global"), "global", "enabled", use_smrt),
                   W("ifname", wan_ifname) >>
        ELSE <<>>
      interface_if_name == Get(config, "uci.ucollect.@interface[0]", None)
  IN IF wan_dns_raises(d) THEN Raised("TypeError", <<>>) ELSE
     CbResult("edit_config", "patch",
              << W("proto", d["proto"]) >> \o mac \o mode \o smrt
              \o << OpSet("ucollect", interface_if_name, "interface", "ifname",
                          ucollect_ifname) >>,
              <<>>, <<>>)

(* ------------------------------- WifiHandler --------------------------- *)

Channel(number, frequency, disabled) ==
  [number |-> number, frequency |-> frequency, disabled |-> disabled]

\* the enabled channels of a card below (lo = TRUE) or from 2500 MHz, in card order
RECURSIVE wifi_channels(_, _)
wifi_channels(channels, lo) ==
  IF channels = <<>> THEN <<>>
  ELSE (IF ~Head(channels).disabled /\ ((Head(channels).frequency < 2500) = lo)
        THEN <<S(Head(channels).number)>> ELSE <<>>)
       \o wifi_channels(Tail(channels), lo)

channels_2g4(cards) == <<S("auto")>> \o wifi_channels(cards[1], TRUE)
channels_5g(cards) == wifi_channels(cards[1], FALSE)

is_dual_band(cards) == Len(channels_2g4(cards)) > 1 /\ Len(channels_5g(cards)) > 1

wifi_base_fields ==
  << Field("iface_section", "text", FALSE, <<>>, <<>>,
           "uci.wireless.@wifi-iface[0]", "name", None),
     Field("wifi_enabled", "checkbox", FALSE, <<>>, <<>>,
           "uci.wireless.@wifi-iface[0].disabled", "notboolint", TRUE),
     Field("ssid", "text", TRUE, <<V("ByteLenRange", 1, 32)>>, <<Req("wifi_enabled", TRUE)>>,
           "uci.wireless.@wifi-iface[0].ssid", "", None),
     Field("ssid_hidden", "checkbox", FALSE, <<>>, <<Req("wifi_enabled", TRUE)>>,
           "uci.wireless.@wifi-iface[0].hidden", "", FALSE) >>

wifi_hwmode_field ==
  << Field("hwmode", "enum", FALSE, <<>>, <<Req("wifi_enabled", TRUE)>>,
           "uci.wireless.radio0.hwmode", "hwmode", S("11ng")) >>

wifi_htmode_field ==
  << Field("htmode", "enum", FALSE, <<>>, <<Req("wifi_enabled", TRUE)>>,
           "uci.wireless.radio0.htmode", "", None) >>

wifi_channel_fields(cards) ==
  (IF Len(channels_2g4(cards)) > 1
   THEN << Field("channel2g4", "enum", FALSE, <<>>,
                 IF is_dual_band(cards) THEN <<Req("hwmode", S("11g"))>> ELSE <<>>,
                 "uci.wireless.radio0.channel", "", channels_2g4(cards)[1]) >>
   ELSE <<>>)
  \o
  (IF Len(channels_5g(cards)) > 1
   THEN << Field("channel5g", "enum", FALSE, <<>>,
                 IF is_dual_band(cards) THEN <<Req("hwmode", S("11a"))>> ELSE <<>>,
                 "uci.wireless.radio0.channel", "", channels_5g(cards)[1]) >>
   ELSE <<>>)

\* the key field, not required
wifi_key_field_optional ==
  << Field("key", "text", FALSE, <<V("ByteLenRange", 8, 63)>>, <<Req("wifi_enabled", TRUE)>>,
           "uci.wireless.@wifi-iface[0].key", "", None) >>

wifi_key_field ==
  << Field("key", "text", TRUE, <<V("ByteLenRange", 8, 63)>>, <<Req("wifi_enabled", TRUE)>>,
           "uci.wireless.@wifi-iface[0].key", "", None) >>

WifiHandler_get_form(cards) ==
  IF Len(cards) < 1 THEN NoForm
  ELSE Form("wifi", <<"set_wifi">>,
            wifi_base_fields
            \o (IF is_dual_band(cards) THEN wifi_hwmode_field ELSE <<>>)
            \o wifi_htmode_field \o wifi_channel_fields(cards) \o wifi_key_field,
            <<"wifi_form_cb">>)

WifiIface(d, name, val) == OpSet("wireless", d["iface_section"], "wifi-iface", name, val)
WifiDevice(name, val) == OpSet("wireless", S("radio0"), "wifi-device", name, val)

\* the channel written when Wi-Fi is enabled
wifi_channel(d) ==
  IF Truthy(Get(d, "channel2g4", None)) THEN d["channel2g4"]
  ELSE IF Truthy(Get(d, "channel5g", None)) THEN d["channel5g"]
  ELSE S("auto")

\* wifi_options that writes the fallback channel of a disabled Wi-Fi
wifi_options_channel_always(d) ==
  IF d["wifi_enabled"]
  THEN << WifiIface(d, "ssid", d["ssid"]), WifiIface(d, "hidden", d["ssid_hidden"]),
          WifiIface(d, "encryption", S("psk2+tkip+aes")), WifiIface(d, "key", d["key"]) >>
       \o (IF Truthy(Get(d, "hwmode", None))
           THEN <<WifiDevice("hwmode", d["hwmode"])>> ELSE <<>>)
       \o << WifiDevice("htmode", d["htmode"]), WifiDevice("channel", wifi_channel(d)) >>
  ELSE << WifiDevice("channel", wifi_channel(d)) >>

\* if data['wifi_enabled']: ... else: pass
wifi_options(d) ==
  IF d["wifi_enabled"]
  THEN << WifiIface(d, "ssid", d["ssid"]), WifiIface(d, "hidden", d["ssid_hidden"]),
          WifiIface(d, "encryption", S("psk2+tkip+aes")), WifiIface(d, "key", d["key"]) >>
       \o (IF Truthy(Get(d, "hwmode", None))
           THEN <<WifiDevice("hwmode", d["hwmode"])>> ELSE <<>>)
       \o << WifiDevice("htmode", d["htmode"]), WifiDevice("channel", wifi_channel(d)) >>
  ELSE <<>>

wifi_form_cb(d) ==
  CbResult("edit_config", "patch",
           << WifiIface(d, "disabled", ~d["wifi_enabled"]),
              WifiDevice("disabled", ~d["wifi_enabled"]) >>
           \o wifi_options(d),
           <<>>, <<>>)

(* --------------------------- NotificationsHandler ---------------------- *)

SmtpOn == <<Req("enable_smtp", TRUE)>>
SmtpCustom == <<Req("enable_smtp", TRUE), Req("use_turris_smtp", S("0"))>>
SmtpTurris == <<Req("enable_smtp", TRUE), Req("use_turris_smtp", S("1"))>>

notifications_section_fields ==
  << Field("enable_smtp", "checkbox", FALSE, <<>>, <<>>,
           "uci.user_notify.smtp.enable", "boolint", FALSE),
     Field("use_turris_smtp", "enum", FALSE, <<>>, SmtpOn,
           "uci.user_notify.smtp.use_turris_smtp", "", S("0")),
     Field("to", "text", TRUE, <<>>, SmtpOn, "uci.user_notify.smtp.to", "join", None),
     Field("sender_name", "text", TRUE, <<V("RegExp", 0, 0)>>, SmtpTurris,
           "uci.user_notify.smtp.sender_name", "", None),
     Field("severity", "enum", FALSE, <<>>, SmtpOn,
           "uci.user_notify.notifications.severity", "int", 1),
     Field("news", "checkbox", FALSE, <<>>, SmtpOn,
           "uci.user_notify.notifications.news", "boolint", FALSE) >>

smtp_section_fields ==
  << Field("from", "text", TRUE, <<>>, SmtpCustom, "uci.user_notify.smtp.from", "", None),
     Field("server", "text", TRUE, <<>>, SmtpCustom, "uci.user_notify.smtp.server", "", None),
     Field("port", "text", TRUE, <<V("PositiveInteger", 0, 0)>>, SmtpCustom,
           "uci.user_notify.smtp.port", "", None),
     Field("security", "enum", FALSE, <<>>, SmtpCustom,
           "uci.user_notify.smtp.security", "", S("none")),
     Field("username", "text", FALSE, <<>>, SmtpCustom,
           "uci.user_notify.smtp.username", "", None),
     Field("password", "text", FALSE, <<>>, SmtpCustom,
           "uci.user_notify.smtp.password", "", None) >>

reboot_section_fields ==
  << Field("delay", "text", TRUE, <<V("PositiveInteger", 0, 0), V("InRange", 0, 10)>>, <<>>,
           "uci.user_notify.reboot.delay", "", None),
     Field("reboot_time", "text", TRUE, <<V("Time", 0, 0)>>, <<>>,
           "uci.user_notify.reboot.time", "", None) >>

NotificationsHandler_get_form ==
  Form("notifications", <<"notifications", "smtp", "reboot">>,
       notifications_section_fields \o smtp_section_fields \o reboot_section_fields,
       <<"notifications_form_cb">>)

\* every piece becomes a recipient, the empty ones included
to_values_all(pieces, i) == [j \in DOMAIN pieces |-> Value(i + j - 1, pieces[j])]

\* for i, to_item in enumerate(pieces): if to_item: to.add(Value(i, to_item))
RECURSIVE to_values(_, _)
to_values(pieces, i) ==
  IF pieces = <<>> THEN <<>>
  ELSE (IF Head(pieces) # <<>> THEN <<Value(i, Head(pieces))>> ELSE <<>>)
       \o to_values(Tail(pieces), i + 1)

notifications_form_cb(d) ==
  LET M(name, val) == OpSet("user_notify", S("smtp"), "smtp", name, val)
      N(name, val) == OpSet("user_notify", S("notifications"), "notifications", name, val)
      R(name, val) == OpSet("user_notify", S("reboot"), "reboot", name, val)
  IN CbResult("edit_config", "patch",
              << M("enable", d["enable_smtp"]),
                 R("time", d["reboot_time"]), R("delay", d["delay"]) >>
              \o (IF d["enable_smtp"]
                  THEN << M("use_turris_smtp", d["use_turris_smtp"]) >>
                       \o (IF d["use_turris_smtp"] = S("0")
                           THEN << M("server", d["server"]), M("port", d["port"]),
                                   M("username", d["username"]),
                                   M("password", d["password"]),
                                   M("security", d["security"]), M("from", d["from"]) >>
                           ELSE << M("sender_name", d["sender_name"]) >>)
                       \o << OpReplace("user_notify", S("smtp"), "smtp", "to",
                                       to_values(split(d["to"]), 0)),
                             N("severity", d["severity"]), N("news", d["news"]) >>
                  ELSE <<>>),
              <<>>, <<>>)

(* ------------------------------ UpdaterHandler ------------------------- *)

\* make_preproc(list_name)(list): list is the contents of pkglists.lists
make_preproc(list_name, list) == \E i \in DOMAIN list : list[i] = S(list_name)

RECURSIVE updater_fields(_)
updater_fields(pkgs) ==
  IF pkgs = <<>> THEN <<>>
  ELSE << Field("install_" \o Head(pkgs), "checkbox", FALSE, <<>>, <<>>,
                "uci.updater.pkglists.lists", "pkglist", FALSE) >>
       \o updater_fields(Tail(pkgs))

\* the form with the patch-building callback registered twice
UpdaterHandler_get_form_twice(pkgs) ==
  Form("package_lists", <<"select_package_lists">>, updater_fields(pkgs),
       <<"package_lists_form_cb", "package_lists_form_cb">>)

UpdaterHandler_get_form(pkgs) ==
  Form("package_lists", <<"select_package_lists">>, updater_fields(pkgs),
       <<"package_lists_form_cb", "package_lists_run_updater_cb">>)

\* for k, v in data.iteritems(): if v and k.startswith("install_"): Value(i, k[8:]).
\* keys is the order in which the dictionary yields its keys.
RECURSIVE updater_lists(_, _, _, _)
updater_lists(d, keys, pkgs, i) ==
  IF keys = <<>> THEN <<>>
  ELSE LET k == Head(keys)
           hit == d[k] /\ \E j \in DOMAIN pkgs : k = "install_" \o pkgs[j]
           name == pkgs[CHOOSE j \in DOMAIN pkgs : k = "install_" \o pkgs[j]]
       IN IF hit
          THEN <<Value(i, S(name))>> \o updater_lists(d, Tail(keys), pkgs, i + 1)
          ELSE updater_lists(d, Tail(keys), pkgs, i)

\* package_lists_form_cb that adds the selected lists instead of replacing the list
package_lists_form_cb_add(d, keys, pkgs) ==
  LET lists == updater_lists(d, keys, pkgs, 0)
  IN CbResult("edit_config", "patch",
              IF Len(lists) = 0
              THEN <<OpRemove("updater", S("pkglists"), "pkglists", "lists")>>
              ELSE <<OpAddList("updater", S("pkglists"), "pkglists", "lists", lists)>>,
              <<>>, <<>>)

package_lists_form_cb(d, keys, pkgs) ==
  LET lists == updater_lists(d, keys, pkgs, 0)
  IN CbResult("edit_config", "patch",
              IF Len(lists) = 0
              THEN <<OpRemove("updater", S("pkglists"), "pkglists", "lists")>>
              ELSE <<OpReplace("updater", S("pkglists"), "pkglists", "lists", lists)>>,
              <<>>, <<>>)

\* package_lists_run_updater_cb that asks for a configuration edit with no patch
package_lists_run_updater_cb_edit(d) ==
  CbResult("edit_config", "none", <<>>, <<>>, <<Call("check_updates", <<>>)>>)

package_lists_run_updater_cb(d) ==
  CbResult("none", "none", <<>>, <<>>, <<Call("check_updates", <<>>)>>)

(* ------------------------------ UcollectHandler ------------------------ *)

SERVICES_OPTIONS == <<S("23tcp")>>

RECURSIVE not_in(_, _)
\* [x for x in options if x not in chosen]
not_in(options, chosen) ==
  IF options = <<>> THEN <<>>
  ELSE (IF \E i \in DOMAIN chosen : chosen[i] = Head(options) THEN <<>>
        ELSE <<Head(options)>>)
       \o not_in(Tail(options), chosen)

\* get_enabled_services that reports every known service as enabled
get_enabled_services_all(disabled_list) == SERVICES_OPTIONS

get_enabled_services(disabled_list) == not_in(SERVICES_OPTIONS, disabled_list)

UcollectHandler_get_form ==
  Form("ucollect", <<"fakes">>,
       << Field("services", "multi", FALSE, <<>>, <<>>,
                "uci.ucollect.fakes.disable", "enabled_services", SERVICES_OPTIONS),
          Field("log_credentials", "checkbox", FALSE, <<>>, <<>>,
                "uci.ucollect.fakes.log_credentials", "uci_bool", FALSE) >>,
       <<"ucollect_form_cb">>)

RECURSIVE enumerate(_, _)
enumerate(items, i) ==
  IF items = <<>> THEN <<>>
  ELSE <<Value(i, Head(items))>> \o enumerate(Tail(items), i + 1)

\* ucollect_disable_ops that always replaces the list, an empty one included
ucollect_disable_ops_replace(d, config) ==
  <<OpReplace("ucollect", S("fakes"), "fakes", "disable",
              enumerate(not_in(SERVICES_OPTIONS, d["services"]), 0))>>

\* the operation on the list "disable"
ucollect_disable_ops(d, config) ==
  LET disabled_services == not_in(SERVICES_OPTIONS, d["services"])
  IN IF Len(disabled_services) # 0
     THEN <<OpReplace("ucollect", S("fakes"), "fakes", "disable",
                      enumerate(disabled_services, 0))>>
     ELSE IF Has(config, "uci.ucollect.fakes")
     THEN <<OpRemove("ucollect", S("fakes"), "fakes", "disable")>>
     ELSE <<>>

ucollect_form_cb(d, config) ==
  CbResult("edit_config", "patch",
           ucollect_disable_ops(d, config)
           \o << OpSet("ucollect", S("fakes"), "fakes", "log_credentials",
                       d["log_credentials"]) >>,
           <<>>, <<>>)

(* ------------------- form engine (foris.fapi.ForisForm) ---------------- *)

FieldIdx(form) == DOMAIN form.fields
FieldNames(form) == {form.fields[i].name : i \in FieldIdx(form)}
FieldOf(form, name) == form.fields[CHOOSE i \in FieldIdx(form) : form.fields[i].name = name]

\* nuci_preproc: the value a field takes from its configuration node
\* " ".join(contents)
RECURSIVE join(_)
join(list) ==
  IF list = <<>> THEN <<>>
  ELSE IF Len(list) = 1 THEN list[1]
  ELSE list[1] \o <<SP>> \o join(Tail(list))

\* x.value.replace("n", "") on the hwmode values
replace_n(v) ==
  CASE v = S("11ng") -> S("11g")
    [] v = S("11na") -> S("11a")
    [] OTHER -> v

\* uci_raw.parse_uci_bool
parse_uci_bool(node) == node \in {S("1"), S("true"), S("yes"), S("on")}

PkgNames == {"l1", "l2", "l3"}

\* nuci_preproc: the value field f takes from its configuration node
Preproc(f, node, config) ==
  CASE f.preproc \in {"", "name", "local"} -> node
    [] f.preproc = "bool" -> Truthy(node)
    [] f.preproc = "int" -> int_value(node)
    [] f.preproc = "boolint" -> bool_int(node)
    [] f.preproc = "notboolint" -> not_bool_int(node)
    [] f.preproc = "dns0" -> extract_dns_item(node, 0)
    [] f.preproc = "dns1" -> extract_dns_item(node, 1)
    [] f.preproc = "smrtd_vlan" -> get_smrtd_vlan(config)
    [] f.preproc = "smrtd_VPI" -> get_smrtd_param("VPI", node)
    [] f.preproc = "smrtd_VCI" -> get_smrtd_param("VCI", node)
    [] f.preproc = "hwmode" -> replace_n(node)
    [] f.preproc = "join" -> join(node)
    [] f.preproc = "pkglist" ->
         make_preproc(CHOOSE n \in PkgNames : f.name = "install_" \o n, node)
    [] f.preproc = "enabled_services" -> get_enabled_services(node)
    [] f.preproc = "uci_bool" -> parse_uci_bool(node)

\* the extraction of field f raises on this node
Raises(f, node) == f.preproc \in {"int", "boolint", "notboolint"} /\ ~IsInt(node)

\* type-specific parsing of a submitted raw value
Parse(type, raw) ==
  IF type = "checkbox" THEN (IF raw = S("0") THEN FALSE ELSE raw # <<>>) ELSE raw

\* The value of every field: submitted, else from the snapshot, else the default.
FieldValue(f, config, submitted) ==
  IF Has(submitted, f.name) THEN Parse(f.type, submitted[f.name])
  ELSE IF f.path # "" /\ Has(config, f.path)
  THEN Preproc(f, config[f.path], config)
  ELSE IF f.path = "" /\ f.preproc # "" THEN Preproc(f, None, config)
  ELSE f.default

FormValues(form, config, submitted) ==
  [n \in FieldNames(form) |-> FieldValue(FieldOf(form, n), config, submitted)]

\* resolving the values of the form raises: a field that takes its value from the
\* snapshot has a node its extraction cannot convert
FormRaises(form, config, submitted) ==
  \E i \in FieldIdx(form) :
     LET f == form.fields[i]
     IN /\ ~Has(submitted, f.name)
        /\ f.path # "" /\ Has(config, f.path)
        /\ Raises(f, config[f.path])

\* requires: every precondition holds of the current value of the named field
Visible(f, values) ==
  \A i \in DOMAIN f.requires :
     Has(values, f.requires[i].name) /\ values[f.requires[i].name] = f.requires[i].value

RECURSIVE FirstFailure(_, _, _)
FirstFailure(vs, name, values) ==
  IF vs = <<>> THEN "none"
  ELSE IF ~ValidatorOK(Head(vs), name, values) THEN Head(vs).v
  ELSE FirstFailure(Tail(vs), name, values)

FieldError(f, values) ==
  IF ~Visible(f, values) THEN "none"
  ELSE IF f.required /\ IsEmpty(values[f.name]) THEN "required"
  ELSE FirstFailure(f.validators, f.name, values)

\* ForisForm.validate(): the per-field errors
FormErrors(form, values) ==
  [n \in FieldNames(form) |-> FieldError(FieldOf(form, n), values)]

FormValid(form, values) == \A n \in FieldNames(form) : FormErrors(form, values)[n] = "none"

\* ForisForm.data: the values of the visible fields, handed to the callbacks
FormData(form, values) ==
  [n \in {m \in FieldNames(form) : Visible(FieldOf(form, m), values)} |-> values[n]]

(* ----------------------------- BaseConfigHandler ----------------------- *)

Kinds == {"Password", "Wan", "DNS", "Time", "Lan", "Wifi", "SystemPassword",
          "Maintenance", "Notifications", "Updater", "Ucollect"}

\* self.get_form() of each handler class
get_form(k, ch, config, cards, pkgs) ==
  CASE k = "Password" -> PasswordHandler_get_form(ch)
    [] k = "Wan" -> WanHandler_get_form(config)
    [] k = "DNS" -> DNSHandler_get_form
    [] k = "Time" -> TimeHandler_get_form
    [] k = "Lan" -> LanHandler_get_form
    [] k = "Wifi" -> WifiHandler_get_form(cards)
    [] k = "SystemPassword" -> SystemPasswordHandler_get_form
    [] k = "Maintenance" -> MaintenanceHandler_get_form
    [] k = "Notifications" -> NotificationsHandler_get_form
    [] k = "Updater" -> UpdaterHandler_get_form(pkgs)
    [] k = "Ucollect" -> UcollectHandler_get_form

\* What the environment decides during one save(): the salt pbkdf2 draws, what
\* load_config_backup answers, the order in which the data dictionary yields its keys.
Env(salt, new_ip, keys) == [salt |-> salt, new_ip |-> new_ip, keys |-> keys]

\* an extra callback handed to save(): it asks for nothing
extra_cb(d) == CbResult("none", "none", <<>>, <<>>, <<>>)

\* cb(data)
RunCallback(cb, d, ch, config, pkgs, env) ==
  CASE cb = "pw_form_cb" -> pw_form_cb(d, ch, config, env.salt)
    [] cb = "wan_form_cb" -> wan_form_cb(d, config)
    [] cb = "dns_form_cb" -> dns_form_cb(d)
    [] cb = "time_form_cb" -> time_form_cb(d)
    [] cb = "lan_form_cb" -> lan_form_cb(d)
    [] cb = "wifi_form_cb" -> wifi_form_cb(d)
    [] cb = "system_pw_form_cb" -> system_pw_form_cb(d)
    [] cb = "maintenance_form_cb" -> maintenance_form_cb(d, env.new_ip)
    [] cb = "notifications_form_cb" -> notifications_form_cb(d)
    [] cb = "package_lists_form_cb" -> package_lists_form_cb(d, env.keys, pkgs)
    [] cb = "package_lists_run_updater_cb" -> package_lists_run_updater_cb(d)
    [] cb = "ucollect_form_cb" -> ucollect_form_cb(d, config)
    [] OTHER -> extra_cb(d)

Ev(ev, name, arg) == [ev |-> ev, name |-> name, arg |-> arg]

\* the events of the calls a callback made: each call, followed by its answer when
\* the callback uses it
RECURSIVE CallEvents(_)
CallEvents(calls) ==
  IF calls = <<>> THEN <<>>
  ELSE <<Ev("call", Head(calls).fn, Head(calls).arg)>>
       \o (IF "ans" \in DOMAIN Head(calls)
           THEN <<Ev("answer", Head(calls).fn, Head(calls).ans)>> ELSE <<>>)
       \o CallEvents(Tail(calls))

\* ForisForm.save(): every registered callback, in registration order; a callback
\* that raises ends the run, and the callbacks after it are not entered
RECURSIVE process_callbacks(_, _, _, _, _, _)
process_callbacks(cbs, d, ch, config, pkgs, env) ==
  IF cbs = <<>> THEN [results |-> <<>>, trace |-> <<>>, raised |-> FALSE]
  ELSE LET r == RunCallback(Head(cbs), d, ch, config, pkgs, env)
           rest == process_callbacks(Tail(cbs), d, ch, config, pkgs, env)
       IN IF r.action = "<raised>"
          THEN [results |-> <<>>,
                trace |-> <<Ev("enter", Head(cbs), <<>>)>> \o CallEvents(r.calls),
                raised |-> TRUE]
          ELSE [results |-> <<r>> \o rest.results,
                trace |-> <<Ev("enter", Head(cbs), <<>>)>> \o CallEvents(r.calls)
                          \o <<Ev("return", Head(cbs), S(r.action))>> \o rest.trace,
                raised |-> rest.raised]

\* BaseConfigHandler.form
form_property(cache, calls, k, ch, config, cards, pkgs) ==
  IF ~cache.exists
  THEN [form |-> get_form(k, ch, config, cards, pkgs), calls |-> calls + 1]
  ELSE [form |-> cache, calls |-> calls]

\* BaseConfigHandler.save(extra_callbacks) on the form the property returned
save(form, submitted, extra_callbacks, ch, config, pkgs, env) ==
  IF ~form.exists \/ FormRaises(form, config, submitted)
  THEN [ret |-> "raised", form |-> form, valid |-> FALSE, errors |-> EmptyFn,
        results |-> <<>>, trace |-> <<>>]
  ELSE LET values == FormValues(form, config, submitted)
           ok == FormValid(form, values)
           cbs == form.callbacks \o extra_callbacks
           run == IF ok
                  THEN process_callbacks(cbs, FormData(form, values), ch, config, pkgs, env)
                  ELSE [results |-> <<>>, trace |-> <<>>, raised |-> FALSE]
       IN [ret |-> IF ~ok THEN "False" ELSE IF run.raised THEN "raised" ELSE "True",
           form |-> [form EXCEPT !.callbacks = cbs],
           valid |-> ok,
           errors |-> FormErrors(form, values),
           results |-> run.results,
           trace |-> run.trace]

(* ------------------------------- requests ------------------------------ *)

\* a field the request does not carry
Absent == <<"<absent>">>

\* The request that carries the fields of r that are not Absent and that the
\* form renders.
Submitted(r, form) ==
  [n \in {m \in DOMAIN r : r[m] # Absent /\ (form.exists => m \in FieldNames(form))}
     |-> r[n]]

Bits == {S("0"), S("1")}
PwA == S("abcdef")
PwB == S("ghijkl")
Passwords == {Absent, <<>>, S("abc"), PwA, PwB}
Salts == {"s1", "s2"}
NewIps == {None, S("192.168.1.1")}

PasswordConfigs ==
  { EmptyFn, "uci.foris.auth.password" :> crypt(PwA, "s1") }

PasswordInputs ==
  [old_password: {<<>>, PwA, PwB}, password: Passwords, password_validation: Passwords,
   set_system_pw: Bits]

SystemPasswordInputs == [password: Passwords, password_validation: Passwords]

MaintenanceInputs == [backup_file: {Absent, <<>>, S("backup.tar.bz2")}]

TimeConfigs == { EmptyFn, "time" :> S("2014-01-01T00:00:00") }
TimeInputs == [time: {<<>>, S("2014-06-01T12:00:00")}]

DNSConfigs ==
  { EmptyFn, "uci.unbound.server.forward_upstream" :> S("0"),
    "uci.unbound.server.forward_upstream" :> S("1") }
DNSInputs == [forward_upstream: Bits]

LanConfigs ==
  { EmptyFn, "uci.dhcp.lan.ignore" :> S("0"),
    ("uci.network.lan.ipaddr" :> S("192.168.1.1")) @@ ("uci.dhcp.lan.ignore" :> S("1"))
    @@ ("uci.dhcp.lan.start" :> S("100")) @@ ("uci.dhcp.lan.limit" :> S("150")) }
LanInputs ==
  [lan_ipaddr: {Absent, <<>>, S("192.168.1.1"), S("bad")}, dhcp_enabled: Bits,
   dhcp_min: {<<>>, S("100")}, dhcp_max: {<<>>, S("150")}]

WanConfigEmpty == EmptyFn
WanConfigStatic ==
  ("uci.network.wan.proto" :> WAN_STATIC) @@ ("uci.network.wan.ipaddr" :> S("192.0.2.1"))
  @@ ("uci.network.wan.netmask" :> S("255.255.255.0"))
  @@ ("uci.network.wan.gateway" :> S("192.0.2.254"))
  @@ ("uci.network.wan.dns" :> <<"8.8.8.8", SP, "192.0.2.1">>)
  @@ ("uci.network.wan.macaddr" :> S("00:11:22:33:44:55"))
  @@ ("uci.ucollect.@interface[0]" :> S("cfg023579"))
WanConfigSmrtd ==
  ("uci.network.wan.proto" :> WAN_PPPOE) @@ ("uci.network.wan.username" :> S("user"))
  @@ ("uci.network.wan.password" :> S("secret")) @@ ("uci.network.wan.ipv6" :> S("1"))
  @@ ("uci.network.wan.ifname" :> <<"eth2", ".", "10">>)
  @@ ("uci.smrtd" :> S("smrtd")) @@ ("uci.smrtd.global.enabled" :> S("1"))
  @@ ("uci.smrtd.eth2.connections" :> << <<"10", SP, "8", SP, "48">> >>)
  @@ ("uci.ucollect.@interface[0]" :> S("cfg023579"))
WanConfigSmrtdFresh == "uci.smrtd" :> S("smrtd")
WanConfigOneDns ==
  ("uci.network.wan.proto" :> WAN_STATIC) @@ ("uci.network.wan.ipaddr" :> S("192.0.2.1"))
  @@ ("uci.network.wan.netmask" :> S("255.255.255.0"))
  @@ ("uci.network.wan.gateway" :> S("192.0.2.254"))
  @@ ("uci.network.wan.dns" :> S("8.8.8.8"))
WanConfigs ==
  {WanConfigEmpty, WanConfigStatic, WanConfigSmrtd, WanConfigSmrtdFresh, WanConfigOneDns}

WanProtoInputs == [proto: {WAN_DHCP, WAN_STATIC, WAN_PPPOE}]
WanStaticOk ==
  [ipaddr |-> S("192.0.2.1"), netmask |-> S("255.255.255.0"), gateway |-> S("192.0.2.254")]
WanStaticInputs ==
  { WanStaticOk, [WanStaticOk EXCEPT !.ipaddr = <<>>], [WanStaticOk EXCEPT !.netmask = S("bad")],
    [WanStaticOk EXCEPT !.ipaddr = S("bad"), !.gateway = <<>>] }
WanDnsInputs ==
  { [dns1 |-> <<>>, dns2 |-> <<>>], [dns1 |-> S("8.8.8.8"), dns2 |-> <<>>],
    [dns1 |-> S("8.8.8.8"), dns2 |-> S("192.0.2.1")] }
WanIpv6Inputs ==
  [static_ipv6: {S("1")}, ip6addr: {<<>>, S("2001:db8::1/64")}, ip6gw: {S("2001:db8::1")},
   ip6prefix: {S("2001:db8::/64")}]
  \cup [static_ipv6: {S("0")}, ip6addr: {S("2001:db8::1/64")}, ip6gw: {S("2001:db8::1")},
        ip6prefix: {S("2001:db8::/64")}]
WanPppoeInputs == [username: {S("user")}, password: {S("secret")}, ppp_ipv6: {S("1")}]
WanMacInputs ==
  [custom_mac: {S("1")}, macaddr: {Absent, <<>>, S("00:11:22:33:44:55"), S("bad")}]
  \cup [custom_mac: {S("0")}, macaddr: {<<>>, S("bad")}]
WanSmrtInputs ==
  [use_smrt: Bits, smrt_vlan: {<<>>, S("10")}, smrt_vpi: {<<>>, S("8")},
   smrt_vci: {<<>>, S("48")}]
WanSmrtOff == [use_smrt |-> S("0"), smrt_vlan |-> <<>>, smrt_vpi |-> <<>>, smrt_vci |-> <<>>]
WanMacOff == [custom_mac |-> S("0"), macaddr |-> <<>>]
WanIpv6Off ==
  [static_ipv6 |-> S("0"), ip6addr |-> S("2001:db8::1/64"), ip6gw |-> S("2001:db8::1"),
   ip6prefix |-> S("2001:db8::/64")]
WanInputs ==
  { [proto |-> WAN_STATIC] @@ a @@ d @@ i @@ x @@ WanMacOff @@ WanSmrtOff :
      a \in WanStaticInputs, d \in WanDnsInputs, i \in WanIpv6Inputs, x \in WanPppoeInputs }
  \cup
  { p @@ a @@ d @@ WanIpv6Off @@ x @@ m @@ WanSmrtOff :
      p \in WanProtoInputs, a \in {WanStaticOk, [WanStaticOk EXCEPT !.ipaddr = S("bad")]},
      d \in {[dns1 |-> S("8.8.8.8"), dns2 |-> <<>>]}, x \in WanPppoeInputs,
      m \in WanMacInputs }
  \cup
  { p @@ WanStaticOk @@ [dns1 |-> <<>>, dns2 |-> <<>>] @@ x @@ m @@ t
      @@ [static_ipv6 |-> S("0"), ip6addr |-> <<>>, ip6gw |-> <<>>, ip6prefix |-> <<>>] :
      p \in WanProtoInputs, x \in WanPppoeInputs,
      m \in [custom_mac: {S("0")}, macaddr: {<<>>}], t \in WanSmrtInputs }
  \cup
  { [proto |-> WAN_STATIC] @@ WanStaticOk @@ [dns1 |-> S("8.8.8.8"), dns2 |-> <<>>]
      @@ [static_ipv6 |-> S("1"), ip6addr |-> S("2001:db8::1/64"), ip6gw |-> S("2001:db8::1"),
          ip6prefix |-> S("2001:db8::/64")]
      @@ x @@ [custom_mac |-> S("1"), macaddr |-> S("00:11:22:33:44:55")] @@ WanSmrtOff :
      x \in WanPppoeInputs }

\* wireless cards: what stats reports
Ch1 == Channel("1", 2412, FALSE)
Ch36 == Channel("36", 5180, FALSE)
Ch40 == Channel("40", 5200, FALSE)
WifiCards ==
  { <<>>, << <<Ch1>> >>, << <<Ch36>> >>, << <<Ch36, Ch40>> >>, << <<Ch1, Ch36, Ch40>> >>,
    << <<[Ch1 EXCEPT !.disabled = TRUE], [Ch36 EXCEPT !.disabled = TRUE]>> >> }
WifiConfigs ==
  { EmptyFn,
    ("uci.wireless.@wifi-iface[0]" :> S("cfg033579"))
    @@ ("uci.wireless.@wifi-iface[0].disabled" :> S("0"))
    @@ ("uci.wireless.@wifi-iface[0].ssid" :> S("Turris"))
    @@ ("uci.wireless.@wifi-iface[0].hidden" :> S("0"))
    @@ ("uci.wireless.@wifi-iface[0].key" :> S("12345678"))
    @@ ("uci.wireless.radio0.hwmode" :> S("11na"))
    @@ ("uci.wireless.radio0.htmode" :> S("HT20"))
    @@ ("uci.wireless.radio0.channel" :> S("36")) }
WifiNameInputs ==
  [ssid: {Absent, <<>>, S("Turris")}, key: {S("12345678")}]
  \cup [ssid: {S("Turris")}, key: {Absent, <<>>, S("short")}]
WifiChannelInputs ==
  { [channel2g4 |-> Absent, channel5g |-> Absent], [channel2g4 |-> S("auto"), channel5g |-> S("36")],
    [channel2g4 |-> S("1"), channel5g |-> S("36")] }
WifiInputs ==
  { [iface_section |-> S("cfg033579"), ssid_hidden |-> S("0"), htmode |-> S("HT20")]
      @@ e @@ n @@ h @@ c :
      e \in [wifi_enabled: Bits \cup {Absent}], n \in WifiNameInputs,
      h \in [hwmode: {Absent, S("11g"), S("11a")}], c \in WifiChannelInputs }

NotificationsConfigs ==
  { EmptyFn,
    ("uci.user_notify.smtp.enable" :> S("1"))
    @@ ("uci.user_notify.smtp.use_turris_smtp" :> S("1"))
    @@ ("uci.user_notify.smtp.to" :> <<S("a@example.com"), S("b@example.com")>>)
    @@ ("uci.user_notify.smtp.sender_name" :> S("turris"))
    @@ ("uci.user_notify.notifications.severity" :> S("1"))
    @@ ("uci.user_notify.notifications.news" :> S("1"))
    @@ ("uci.user_notify.reboot.delay" :> S("3"))
    @@ ("uci.user_notify.reboot.time" :> S("03:30")),
    "uci.user_notify.notifications.severity" :> S("01"),
    "uci.user_notify.notifications.severity" :> S("abc") }
NotificationsInputs ==
  [enable_smtp: Bits, use_turris_smtp: Bits,
   to: {<<>>, <<SP>>, S("a@example.com"), <<"a@example.com", SP, SP, "b@example.com">>},
   sender_name: {<<>>, S("turris"), S("bad name")},
   severity: {S("1")}, news: {S("0")},
   from: {<<>>, S("router@example.com")}, server: {S("smtp.example.com")},
   port: {S("25")}, security: {S("none")}, username: {S("user")},
   password: {S("secret")}, delay: {S("3")}, reboot_time: {S("03:30")}]
  \cup
  [enable_smtp: {S("1")}, use_turris_smtp: Bits,
   to: {S("a@example.com")}, sender_name: {S("turris")},
   severity: {S("1")}, news: {S("0")},
   from: {S("router@example.com")}, server: {S("smtp.example.com")},
   port: {S("25")}, security: {S("none")}, username: {S("user")},
   password: {S("secret")}, delay: {<<>>, S("3"), S("11")},
   reboot_time: {S("03:30"), S("bad")}]

\* how many package lists the updater knows
NumPkgLists == 2
AllPkgs == <<"l1", "l2", "l3">>
PkgLists == {SubSeq(AllPkgs, 1, n) : n \in 0..NumPkgLists}
UpdaterConfigs ==
  { EmptyFn, "uci.updater.pkglists.lists" :> <<S("l1")>>,
    "uci.updater.pkglists.lists" :> <<S("l2"), S("l1")>> }
UpdaterInputs == [install_l1: Bits, install_l2: Bits, install_l3: Bits]

UcollectConfigs ==
  { EmptyFn,
    ("uci.ucollect.fakes" :> S("fakes")) @@ ("uci.ucollect.fakes.log_credentials" :> S("1")),
    ("uci.ucollect.fakes" :> S("fakes")) @@ ("uci.ucollect.fakes.disable" :> <<S("23tcp")>>) }
UcollectInputs == [services: {<<>>, SERVICES_OPTIONS}, log_credentials: Bits]

Configs(k) ==
  CASE k = "Password" -> PasswordConfigs
    [] k = "Wan" -> WanConfigs
    [] k = "DNS" -> DNSConfigs
    [] k = "Time" -> TimeConfigs
    [] k = "Lan" -> LanConfigs
    [] k = "Wifi" -> WifiConfigs
    [] k = "Notifications" -> NotificationsConfigs
    [] k = "Updater" -> UpdaterConfigs
    [] k = "Ucollect" -> UcollectConfigs
    [] OTHER -> {EmptyFn}

RawInputs(k) ==
  CASE k = "Password" -> PasswordInputs
    [] k = "Wan" -> WanInputs
    [] k = "DNS" -> DNSInputs
    [] k = "Time" -> TimeInputs
    [] k = "Lan" -> LanInputs
    [] k = "Wifi" -> WifiInputs
    [] k = "SystemPassword" -> SystemPasswordInputs
    [] k = "Maintenance" -> MaintenanceInputs
    [] k = "Notifications" -> NotificationsInputs
    [] k = "Updater" -> UpdaterInputs
    [] k = "Ucollect" -> UcollectInputs

\* the requests a handler is constructed with: none (data=None), or a posted form
Requests(k, form) == {EmptyFn} \cup {Submitted(r, form) : r \in RawInputs(k)}

(* ---------------------------- the state machine ------------------------ *)

\* BaseConfigHandler.__init__(data), PasswordHandler.__init__(change=..)
Init ==
  /\ kind \in Kinds
  /\ change \in (IF kind = "Password" THEN BOOLEAN ELSE {FALSE})
  /\ cfg \in Configs(kind)
  /\ stats \in (IF kind = "Wifi" THEN WifiCards ELSE {<<>>})
  /\ pkg_list \in (IF kind = "Updater" THEN PkgLists ELSE {<<>>})
  /\ data \in Requests(kind, get_form(kind, change, cfg, stats, pkg_list))
  /\ form_cache = NoForm
  /\ get_form_calls = 0
  /\ form_reads = 0
  /\ saves = 0
  /\ ret = "none"
  /\ valid = FALSE
  /\ errors = EmptyFn
  /\ results = <<>>
  /\ trace = <<>>

\* reading handler.form
ReadForm ==
  /\ form_reads < MaxFormReads
  /\ LET p == form_property(form_cache, get_form_calls, kind, change, cfg, stats, pkg_list)
     IN /\ form_cache' = p.form
        /\ get_form_calls' = p.calls
  /\ form_reads' = form_reads + 1
  /\ UNCHANGED <<kind, change, cfg, stats, pkg_list, data, saves, ret, valid, errors,
                 results, trace>>

ExtraCallbacks == UNION {[1..n -> {"extra_cb"}] : n \in 0..MaxExtra}

\* every order in which a dictionary may yield its keys
Orders(keys) ==
  {o \in [1..Cardinality(keys) -> keys] : \A i, j \in DOMAIN o : i # j => o[i] # o[j]}

Envs(k, form) ==
  { Env(salt, new_ip, keys) :
      salt \in (IF k = "Password" THEN Salts ELSE {"s1"}),
      new_ip \in (IF k = "Maintenance" THEN NewIps ELSE {None}),
      keys \in (IF k = "Updater" THEN Orders(FieldNames(form)) ELSE {<<>>}) }

\* handler.save(extra_callbacks)
Save ==
  /\ saves < MaxSaves
  /\ LET p == form_property(form_cache, get_form_calls, kind, change, cfg, stats, pkg_list)
     IN \E extra \in ExtraCallbacks, env \in Envs(kind, p.form) :
          LET r == save(p.form, data, extra, change, cfg, pkg_list, env)
          IN /\ form_cache' = r.form
             /\ get_form_calls' = p.calls
             /\ ret' = r.ret
             /\ valid' = r.valid
             /\ errors' = r.errors
             /\ results' = r.results
             /\ trace' = r.trace
  /\ form_reads' = form_reads + 1
  /\ saves' = saves + 1
  /\ UNCHANGED <<kind, change, cfg, stats, pkg_list, data>>

Next == ReadForm \/ Save

Spec == Init /\ [][Next]_vars

(* ------------------------------ properties ----------------------------- *)

\* the values the fields of the handler's form have for this request
Values == FormValues(form_cache, cfg, data)

\* save() has run on a form and returned
Saved == saves > 0 /\ form_cache.exists /\ ret \in {"True", "False"}

\* the callbacks entered during the last save(), in order
Entered ==
  LET e == SelectSeq(trace, LAMBDA x : x.ev = "enter") IN [i \in DOMAIN e |-> e[i].name]

OwnCallbacks == get_form(kind, change, cfg, stats, pkg_list).callbacks

\* the patch of the handler's first callback
Patch == results[1].patch

HasOp(p, config, section, op, name) ==
  \E i \in DOMAIN p :
     /\ p[i].config = config
     /\ p[i].section = section
     /\ p[i].op = op
     /\ p[i].name = name

SetsTo(p, config, section, name, val) ==
  \E i \in DOMAIN p :
     /\ p[i].config = config
     /\ p[i].section = section
     /\ p[i].op = "set"
     /\ p[i].name = name
     /\ p[i].val = val

\* validate() found an error on some field of the form
Invalid == saves > 0 /\ form_cache.exists /\ \E n \in DOMAIN errors : errors[n] # "none"

\* C1: for every handler and every input, save() runs the callbacks only when the
\* form validated, the handler's own callbacks first and the extra ones after them,
\* in registration order; it returns True exactly when the form is valid; on an
\* invalid form it returns False, no callback is entered and no external call is made.
C1_SaveRunsCallbacksOnlyWhenValid ==
  saves > 0 =>
    /\ (ret = "True") <=> valid
    /\ trace # <<>> => valid
    /\ valid =>
         /\ Entered = form_cache.callbacks
         /\ SubSeq(Entered, 1, Len(OwnCallbacks)) = OwnCallbacks
         /\ \A i \in (Len(OwnCallbacks) + 1)..Len(Entered) : Entered[i] = "extra_cb"
         /\ Len(results) = Len(Entered)
    /\ Invalid =>
         /\ ~valid
         /\ ret = "False"
         /\ trace = <<>>
         /\ results = <<>>

\* the old password of the request does not hash to the stored hash
WrongOldPassword ==
  /\ change
  /\ Has(cfg, "uci.foris.auth.password")
  /\ Has(data, "old_password")
  /\ cfg["uci.foris.auth.password"]
       # crypt(data["old_password"], salt_of(cfg["uci.foris.auth.password"]))

\* C2: PasswordHandler in change mode, with a stored hash the submitted old password
\* does not hash to: the callback returns ("save_result", {"wrong_old_password": True}),
\* builds no patch and does not call set_password, whatever password and set_system_pw.
C2_WrongOldPasswordStops ==
  (kind = "Password" /\ Saved /\ valid /\ WrongOldPassword) =>
    /\ results[1].action = "save_result"
    /\ results[1].payload = "dict"
    /\ Len(results[1].result) = 1
    /\ results[1].result[1].key = "wrong_old_password"
    /\ results[1].result[1].val = TRUE
    /\ results[1].patch = <<>>
    /\ \A i \in DOMAIN trace : ~(trace[i].ev = "call" /\ trace[i].name = "set_password")

C2_Witness ==
  /\ kind = "Password" /\ Saved /\ valid /\ WrongOldPassword
  /\ Values["set_system_pw"] = TRUE
  /\ results[1].action = "save_result"

\* C3: PasswordHandler with the old password matching the stored hash, or with no old
\* password asked: the callback returns ("edit_config", patch), the patch being exactly
\* one operation, a set of option password in section auth of config foris, whose
\* value is a hash of the new password and not the new password itself.
C3_PasswordPatchIsOneHash ==
  (kind = "Password" /\ Saved /\ valid /\ ~WrongOldPassword) =>
    /\ results[1].action = "edit_config"
    /\ results[1].payload = "patch"
    /\ Len(Patch) = 1
    /\ Patch[1].config = "foris"
    /\ Patch[1].section = S("auth")
    /\ Patch[1].op = "set"
    /\ Patch[1].name = "password"
    /\ \E salt \in Salts : Patch[1].val = crypt(Values["password"], salt)
    /\ Patch[1].val # Values["password"]

C3_Witness ==
  /\ kind = "Password" /\ Saved /\ valid /\ change
  /\ Has(cfg, "uci.foris.auth.password")
  /\ ~WrongOldPassword
  /\ results[1].action = "edit_config"

WanSection(p, op, name) == HasOp(p, "network", S("wan"), op, name)

\* the WAN request of the scenario: static, no DNS server, no IPv6
WanStaticNoDns ==
  /\ kind = "Wan" /\ Saved /\ valid
  /\ Values["proto"] = WAN_STATIC
  /\ Values["dns1"] = <<>>
  /\ Values["dns2"] = <<>>
  /\ Values["static_ipv6"] = FALSE

\* C4: WanHandler, static protocol with valid address, netmask and gateway, both DNS
\* fields empty and static_ipv6 false: the patch sets proto, ipaddr, netmask and
\* gateway of network.wan to the submitted values, sets dns to the empty string,
\* removes ip6addr, ip6gw and ip6prefix and sets none of those three.
C4_WanStaticPatch ==
  WanStaticNoDns =>
    /\ results[1].action = "edit_config"
    /\ SetsTo(Patch, "network", S("wan"), "proto", WAN_STATIC)
    /\ \A n \in {"ipaddr", "netmask", "gateway"} :
          SetsTo(Patch, "network", S("wan"), n, Values[n])
    /\ SetsTo(Patch, "network", S("wan"), "dns", <<>>)
    /\ \A i \in DOMAIN Patch :
          (Patch[i].op = "set" /\ Patch[i].name = "dns") => Patch[i].val = <<>>
    /\ \A n \in {"ip6addr", "ip6gw", "ip6prefix"} :
          WanSection(Patch, "remove", n) /\ ~WanSection(Patch, "set", n)

C4_Witness ==
  /\ WanStaticNoDns
  /\ Has(data, "ipaddr") /\ data["ipaddr"] = S("192.0.2.1")
  /\ Has(data, "dns1") /\ data["dns1"] = <<>>
  /\ Has(data, "ip6addr") /\ data["ip6addr"] # <<>>
  /\ WanSection(Patch, "remove", "ip6addr")

\* C5: WifiHandler with wifi_enabled false: the patch sets disabled to true on the
\* wifi-iface section and on the wifi-device section radio0 and holds nothing else,
\* whatever else the request carries.
C5_WifiDisabledPatch ==
  (kind = "Wifi" /\ Saved /\ valid /\ Values["wifi_enabled"] = FALSE) =>
    /\ results[1].action = "edit_config"
    /\ Len(Patch) = 2
    /\ \E i, j \in DOMAIN Patch :
         /\ Patch[i].stype = "wifi-iface"
         /\ Patch[i].section = Values["iface_section"]
         /\ Patch[j].stype = "wifi-device"
         /\ Patch[j].section = S("radio0")
    /\ \A i \in DOMAIN Patch :
         /\ Patch[i].config = "wireless"
         /\ Patch[i].op = "set"
         /\ Patch[i].name = "disabled"
         /\ Patch[i].val = TRUE

C5_Witness ==
  /\ kind = "Wifi" /\ Saved /\ valid /\ Values["wifi_enabled"] = FALSE
  /\ Has(data, "ssid") /\ data["ssid"] = S("Turris")
  /\ Has(data, "channel2g4") /\ data["channel2g4"] = S("1")
  /\ Len(Patch) = 2

Fakes(p, op, name) == HasOp(p, "ucollect", S("fakes"), op, name)

\* every available service is selected, and the snapshot holds a disable list
UcollectAllSelected ==
  /\ kind = "Ucollect" /\ Saved /\ valid
  /\ \A i \in DOMAIN SERVICES_OPTIONS :
        \E j \in DOMAIN Values["services"] : Values["services"][j] = SERVICES_OPTIONS[i]
  /\ Has(cfg, "uci.ucollect.fakes.disable")

\* C6: UcollectHandler with every available service selected and a disable list in
\* the configuration: the patch removes the list disable of section fakes, and
\* neither sets nor replaces it.
C6_UcollectRemovesDisable ==
  UcollectAllSelected =>
    /\ results[1].action = "edit_config"
    /\ Fakes(Patch, "remove", "disable")
    /\ ~Fakes(Patch, "set", "disable")
    /\ ~Fakes(Patch, "replace", "disable")
    /\ ~Fakes(Patch, "add_list", "disable")

C6_Witness ==
  /\ UcollectAllSelected
  /\ Has(data, "services") /\ data["services"] = <<S("23tcp")>>
  /\ Fakes(Patch, "remove", "disable")

\* the data the callbacks were handed: the values of the visible fields
CbData == FormData(form_cache, Values)

ListNonEmpty(path) == Has(cfg, path) /\ cfg[path] # <<>>

\* the patch removes the list, or replaces it with an empty one, and does not set it
ListEmptied(p, config, section, name) ==
  /\ \E i \in DOMAIN p :
        /\ p[i].config = config
        /\ p[i].section = section
        /\ p[i].name = name
        /\ p[i].op \in {"remove", "replace"}
        /\ p[i].op = "replace" => p[i].val = <<>>
  /\ ~HasOp(p, config, section, "set", name)

\* a saved updater form with no package list checked, the snapshot holding some
UpdaterDerivesEmpty ==
  /\ kind = "Updater" /\ Saved /\ valid
  /\ ListNonEmpty("uci.updater.pkglists.lists")
  /\ \A n \in DOMAIN CbData : CbData[n] = FALSE

\* a saved ucollect form with no service left disabled, the snapshot holding some
UcollectDerivesEmpty ==
  /\ kind = "Ucollect" /\ Saved /\ valid
  /\ ListNonEmpty("uci.ucollect.fakes.disable")
  /\ not_in(SERVICES_OPTIONS, CbData["services"]) = <<>>

\* a saved notifications form that gives no recipient (SMTP off hides the field),
\* the snapshot holding some
NotificationsDerivesEmpty ==
  /\ kind = "Notifications" /\ Saved /\ valid
  /\ ListNonEmpty("uci.user_notify.smtp.to")
  /\ to_values(split(Get(CbData, "to", <<>>)), 0) = <<>>

\* a saved WAN form on a router with smrtd, without both VPI and VCI, the snapshot
\* holding a connection
SmrtdDerivesEmpty ==
  /\ kind = "Wan" /\ Saved /\ valid
  /\ wan_has_smrtd(cfg)
  /\ ListNonEmpty("uci.smrtd.eth2.connections")
  /\ ~(Truthy(Get(CbData, "smrt_vpi", None)) /\ Truthy(Get(CbData, "smrt_vci", None)))

\* C7: for each of the four lists (updater pkglists.lists, ucollect fakes.disable,
\* user_notify smtp.to, smrtd eth2.connections), non-empty in the snapshot and derived
\* empty by the saved form, the patch removes the list or replaces it with an empty
\* one, never sets it, and is never silent about it.
C7_EmptyListsAreRemoved ==
  /\ UpdaterDerivesEmpty => ListEmptied(Patch, "updater", S("pkglists"), "lists")
  /\ UcollectDerivesEmpty => ListEmptied(Patch, "ucollect", S("fakes"), "disable")
  /\ NotificationsDerivesEmpty => ListEmptied(Patch, "user_notify", S("smtp"), "to")
  /\ SmrtdDerivesEmpty => ListEmptied(Patch, "smrtd", S("eth2"), "connections")

\* a field of the form whose requires are not all satisfied by the current values
Hidden(f) == ~Visible(f, Values)

\* C8: a field whose requires are not all satisfied has no error whatever was
\* submitted for it, and the form is valid exactly when no visible field has an error;
\* in WanHandler, with proto dhcp, ipaddr, netmask and gateway have no error.
C8_HiddenFieldsNeverFail ==
  Saved =>
    /\ \A i \in FieldIdx(form_cache) :
          Hidden(form_cache.fields[i]) => errors[form_cache.fields[i].name] = "none"
    /\ valid <=> \A i \in FieldIdx(form_cache) :
                    Visible(form_cache.fields[i], Values)
                      => errors[form_cache.fields[i].name] = "none"
    /\ (kind = "Wan" /\ Values["proto"] = WAN_DHCP) =>
          \A n \in {"ipaddr", "netmask", "gateway"} : errors[n] = "none"

C8_Witness ==
  /\ kind = "Wan" /\ Saved
  /\ Values["proto"] = WAN_DHCP
  /\ Has(data, "ipaddr") /\ data["ipaddr"] = S("bad")
  /\ errors["ipaddr"] = "none"
  /\ ret = "True"

\* a required field of the form, visible under the current values
RequiredVisible(f) == f.required /\ Visible(f, Values)

\* what the field is given when the request does not carry it
Fallback(f) == FieldValue(f, cfg, EmptyFn)

\* the fields the claim names, when the field that shows them is on
NamedRequired ==
  IF kind = "Wifi" /\ Values["wifi_enabled"] = TRUE THEN {"ssid", "key"}
  ELSE IF kind = "Wan" /\ Values["custom_mac"] = TRUE THEN {"macaddr"}
  ELSE {}

SubmittedEmpty(n) == Has(data, n) /\ data[n] = <<>>

FailsRequired(n) == errors[n] = "required" /\ ret = "False"

\* C9, as claimed: a required visible field whose submitted value is empty or absent
\* has a "required" error, and save() returns False; so have ssid and key of
\* WifiHandler with wifi_enabled true, and macaddr of WanHandler with custom_mac true.
C9_Original ==
  Saved =>
    /\ \A i \in FieldIdx(form_cache) :
          LET f == form_cache.fields[i]
          IN (RequiredVisible(f) /\ (~Has(data, f.name) \/ data[f.name] = <<>>)) =>
                FailsRequired(f.name)
    /\ \A n \in NamedRequired : (~Has(data, n) \/ data[n] = <<>>) => FailsRequired(n)

\* C9: a required visible field has a "required" error, and save() returns False, when
\* its submitted value is empty, or when the request does not carry it and neither the
\* snapshot nor the default gives it a value; a field the request does not carry and
\* the snapshot fills has no "required" error. So it is for ssid and key of
\* WifiHandler with wifi_enabled true, and macaddr of WanHandler with custom_mac true.
C9_RequiredFieldsFail ==
  Saved =>
    /\ \A i \in FieldIdx(form_cache) :
          LET f == form_cache.fields[i]
          IN /\ (RequiredVisible(f) /\ SubmittedEmpty(f.name)) => FailsRequired(f.name)
             /\ (RequiredVisible(f) /\ ~Has(data, f.name) /\ IsEmpty(Fallback(f))) =>
                   FailsRequired(f.name)
             /\ (RequiredVisible(f) /\ ~Has(data, f.name) /\ ~IsEmpty(Fallback(f))) =>
                   errors[f.name] # "required"
    /\ \A n \in NamedRequired :
          /\ SubmittedEmpty(n) => FailsRequired(n)
          /\ (~Has(data, n) /\ IsEmpty(Fallback(FieldOf(form_cache, n)))) => FailsRequired(n)

C9_Witness ==
  /\ kind = "Wifi" /\ Saved
  /\ Values["wifi_enabled"] = TRUE
  /\ Has(data, "key") /\ data["key"] = <<>>
  /\ errors["key"] = "required"
  /\ ret = "False"

\* a set_password call was made during the last save()
SetPasswordCalled ==
  \E i \in DOMAIN trace : trace[i].ev = "call" /\ trace[i].name = "set_password"

\* C10, as claimed: password_validation fails when the two passwords differ and
\* passes when they are equal; callbacks and set_password are reached only when equal.
C10_Original ==
  (kind \in {"Password", "SystemPassword"} /\ Saved) =>
    /\ Values["password"] # Values["password_validation"]
         => errors["password_validation"] # "none"
    /\ Values["password"] = Values["password_validation"]
         => errors["password_validation"] = "none"
    /\ (Entered # <<>> \/ SetPasswordCalled)
         => Values["password"] = Values["password_validation"]

\* C10: password_validation fails when the two passwords differ, with the EqualTo
\* error when it is not empty itself; it passes when they are equal and not empty, and
\* reports "required" when both are empty; callbacks and set_password are reached only
\* when the two passwords are equal.
C10_EqualToGuardsPassword ==
  (kind \in {"Password", "SystemPassword"} /\ Saved) =>
    LET a == Values["password"]
        b == Values["password_validation"]
    IN /\ a # b => errors["password_validation"] # "none"
       /\ (a # b /\ ~IsEmpty(b)) => errors["password_validation"] = "EqualTo"
       /\ (a = b /\ ~IsEmpty(b)) => errors["password_validation"] = "none"
       /\ (a = b /\ IsEmpty(b)) => errors["password_validation"] = "required"
       /\ (Entered # <<>> \/ SetPasswordCalled) => a = b

C10_Witness ==
  /\ kind = "SystemPassword" /\ Saved
  /\ Values["password"] = PwA
  /\ Values["password_validation"] = PwA
  /\ errors["password_validation"] = "none"
  /\ SetPasswordCalled

\* the form was built for a request that carries no input
NoInput == form_cache.exists /\ data = EmptyFn

\* C11: a form built with no submitted input gives every field with a source path
\* the extract of the node at that path (the node itself when the field declares no
\* extract) when the snapshot holds the path, and the field's default when it does
\* not; so dhcp_enabled of LanHandler is not bool(int(ignore)) or its default True,
\* dns1 and dns2 of WanHandler are the first and second word of the dns option, and
\* severity of NotificationsHandler is the integer its option spells, or its default 1.
\* (An extract that raises on its node gives the field no value.)
C11_PrefillRoundTrip ==
  NoInput =>
    /\ DOMAIN Values = FieldNames(form_cache)
    /\ \A i \in FieldIdx(form_cache) :
          LET f == form_cache.fields[i]
          IN f.path # "" =>
               /\ (Has(cfg, f.path) /\ f.preproc = "") => Values[f.name] = cfg[f.path]
               /\ (Has(cfg, f.path) /\ f.preproc # "" /\ ~Raises(f, cfg[f.path]))
                    => Values[f.name] = Preproc(f, cfg[f.path], cfg)
               /\ ~Has(cfg, f.path) => Values[f.name] = f.default
    /\ kind = "Lan" =>
          /\ Values["dhcp_enabled"] =
               (IF Has(cfg, "uci.dhcp.lan.ignore")
                THEN cfg["uci.dhcp.lan.ignore"] = S("0") ELSE TRUE)
          /\ Has(cfg, "uci.network.lan.ipaddr")
               => Values["lan_ipaddr"] = cfg["uci.network.lan.ipaddr"]
    /\ (kind = "Notifications" /\ Has(cfg, "uci.user_notify.notifications.severity")) =>
          /\ cfg["uci.user_notify.notifications.severity"] \in {S("1"), S("01")}
               => Values["severity"] = 1
    /\ (kind = "Notifications" /\ ~Has(cfg, "uci.user_notify.notifications.severity")) =>
          Values["severity"] = 1
    /\ (kind = "Wan" /\ cfg = WanConfigStatic) =>
          /\ Values["dns1"] = S("8.8.8.8")
          /\ Values["dns2"] = S("192.0.2.1")
    /\ (kind = "Wan" /\ ~Has(cfg, "uci.network.wan.dns")) =>
          /\ Values["dns1"] = None
          /\ Values["dns2"] = None

C11_Witness ==
  /\ NoInput
  /\ kind = "Wan"
  /\ cfg = WanConfigStatic
  /\ Values["dns2"] = S("192.0.2.1")
  /\ Values["ipaddr"] = S("192.0.2.1")

\* C12: every callback of a valid save returns an action among edit_config,
\* save_result and none, with a patch exactly when the action is edit_config, a
\* result dict exactly when it is save_result, and nothing when it is none.
C12_ActionVocabulary ==
  (Saved /\ valid) =>
    \A i \in DOMAIN results :
       /\ results[i].action \in {"edit_config", "save_result", "none"}
       /\ results[i].action = "edit_config" <=> results[i].payload = "patch"
       /\ results[i].action = "save_result" <=> results[i].payload = "dict"
       /\ results[i].action = "none" <=> results[i].payload = "none"
       /\ results[i].payload # "patch" => results[i].patch = <<>>
       /\ results[i].payload # "dict" => results[i].result = <<>>

C12_Witness ==
  /\ Saved /\ valid
  /\ kind = "Maintenance"
  /\ results[1].action = "save_result"
  /\ results[1].payload = "dict"

\* the results of the handler's own callbacks that ask for a configuration edit
OwnEdits ==
  {i \in DOMAIN results : i <= Len(OwnCallbacks) /\ results[i].action = "edit_config"}

\* C13: the callbacks a handler registers yield at most one edit_config result per
\* save(), UpdaterHandler's two callbacks included: the first yields the patch and the
\* second yields none.
C13_AtMostOnePatch ==
  (Saved /\ valid) =>
    /\ Cardinality(OwnEdits) <= 1
    /\ kind = "Updater" =>
          /\ Len(OwnCallbacks) = 2
          /\ OwnEdits = {1}
          /\ results[2].action = "none"

C13_Witness ==
  /\ Saved /\ valid
  /\ kind = "Updater"
  /\ Len(form_cache.callbacks) = 2
  /\ results[1].action = "edit_config"
  /\ results[2].action = "none"

\* C14, as claimed: every form a handler's get_form returns has exactly one section.
C14_OneSection == form_cache.exists => Len(form_cache.sections) = 1

WanSaved == kind = "Wan" /\ Saved /\ valid

StaticOptions == {"ipaddr", "netmask", "gateway", "dns", "ip6addr", "ip6gw", "ip6prefix"}
PppoeOptions == {"username", "password", "ipv6"}

\* C15, as claimed: whenever proto is not static the WAN patch removes the static
\* options ipaddr, netmask, gateway, dns, ip6addr, ip6gw and ip6prefix, and whenever
\* proto is not pppoe it removes the PPPoE options username, password and ipv6.
C15_StaleOptionsRemoved ==
  WanSaved =>
    /\ Values["proto"] # WAN_STATIC => \A n \in StaticOptions : WanSection(Patch, "remove", n)
    /\ Values["proto"] # WAN_PPPOE => \A n \in PppoeOptions : WanSection(Patch, "remove", n)

WanSets(n) == WanSection(Patch, "set", n)

\* C16: the WAN patch sets ipaddr, netmask, gateway and dns exactly when proto is
\* static, ip6addr, ip6gw and ip6prefix exactly when proto is static and static_ipv6
\* is true, username, password and ipv6 exactly when proto is pppoe; it sets macaddr
\* when custom_mac is true and removes it otherwise, never both and never neither.
C16_ModeSpecificSets ==
  WanSaved =>
    /\ \A n \in {"ipaddr", "netmask", "gateway", "dns"} :
          WanSets(n) <=> Values["proto"] = WAN_STATIC
    /\ \A n \in {"ip6addr", "ip6gw", "ip6prefix"} :
          WanSets(n) <=> (Values["proto"] = WAN_STATIC /\ Values["static_ipv6"] = TRUE)
    /\ \A n \in PppoeOptions : WanSets(n) <=> Values["proto"] = WAN_PPPOE
    /\ WanSets("macaddr") <=> Values["custom_mac"] = TRUE
    /\ WanSection(Patch, "remove", "macaddr") <=> Values["custom_mac"] # TRUE
    /\ Values["custom_mac"] = TRUE
         => SetsTo(Patch, "network", S("wan"), "macaddr", Values["macaddr"])

C16_Witness ==
  /\ WanSaved
  /\ Values["proto"] = WAN_STATIC
  /\ Values["static_ipv6"] = TRUE
  /\ Values["custom_mac"] = TRUE
  /\ WanSets("ip6addr")
  /\ WanSets("macaddr")
  /\ ~WanSets("username")

\* the external calls made during the last save(), in order
ExternalCalls ==
  LET c == SelectSeq(trace, LAMBDA x : x.ev = "call")
  IN [i \in DOMAIN c |-> Call(c[i].name, c[i].arg)]

\* what the external calls made during the last save() answered, in order
Answers ==
  LET c == SelectSeq(trace, LAMBDA x : x.ev = "answer")
  IN [i \in DOMAIN c |-> c[i].arg]

\* C17: on a successful save MaintenanceHandler calls load_config_backup once with
\* the uploaded file and returns save_result with what that call answered as new_ip,
\* TimeHandler calls set_time once with the submitted time and SystemPasswordHandler
\* calls set_password once with root and the submitted password, both returning none;
\* none of the three yields a patch.
C17_SideEffectHandlers ==
  (Saved /\ ret = "True") =>
    /\ kind = "Maintenance" =>
          /\ ExternalCalls = <<Call("load_config_backup", <<Values["backup_file"]>>)>>
          /\ Len(Answers) = 1
          /\ results[1].action = "save_result"
          /\ results[1].payload = "dict"
          /\ results[1].result = <<ResultItem("new_ip", Answers[1])>>
    /\ kind = "Time" =>
          /\ ExternalCalls = <<Call("set_time", <<Values["time"]>>)>>
          /\ results[1].action = "none"
          /\ results[1].payload = "none"
    /\ kind = "SystemPassword" =>
          /\ ExternalCalls = <<Call("set_password", <<S("root"), Values["password"]>>)>>
          /\ results[1].action = "none"
          /\ results[1].payload = "none"
    /\ kind \in {"Maintenance", "Time", "SystemPassword"} =>
          \A i \in DOMAIN results :
             results[i].action # "edit_config" /\ results[i].patch = <<>>

C17_Witness ==
  /\ Saved /\ ret = "True"
  /\ kind = "Maintenance"
  /\ ExternalCalls = <<Call("load_config_backup", <<S("backup.tar.bz2")>>)>>
  /\ Answers = <<S("192.168.1.1")>>
  /\ results[1].result = <<ResultItem("new_ip", S("192.168.1.1"))>>

\* the field of the form at position i names, in each of its preconditions, a field
\* declared at an earlier position
RequiresEarlier(form, i) ==
  \A j \in DOMAIN form.fields[i].requires :
     \E k \in 1..(i - 1) : form.fields[k].name = form.fields[i].requires[j].name

\* C18: in every form, whatever the snapshot (smrtd present or not, single or dual
\* band card), each requires precondition names a field that exists in the form and
\* is declared before the field that depends on it.
C18_RequiresNameEarlierFields ==
  form_cache.exists => \A i \in FieldIdx(form_cache) : RequiresEarlier(form_cache, i)

C18_Witness ==
  /\ form_cache.exists
  /\ kind = "Wifi"
  /\ "hwmode" \in FieldNames(form_cache)
  /\ "channel5g" \in FieldNames(form_cache)
  /\ \E j \in DOMAIN FieldOf(form_cache, "channel5g").requires :
        FieldOf(form_cache, "channel5g").requires[j].name = "hwmode"
  /\ \A i \in FieldIdx(form_cache) : RequiresEarlier(form_cache, i)

\* the positions of the trace at which set_password is called
SetPasswordCalls == {i \in DOMAIN trace : trace[i].ev = "call" /\ trace[i].name = "set_password"}

\* position i lies inside a run of callback cb that returns action
InsideCallback(i, cb, action) ==
  \E e \in 1..(i - 1), r \in (i + 1)..Len(trace) :
     /\ trace[e] = Ev("enter", cb, <<>>)
     /\ trace[r] = Ev("return", cb, S(action))
     /\ \A m \in (e + 1)..(r - 1) : trace[m].ev = "call"

\* C19: when PasswordHandler's callback runs, set_password("root", new password) is
\* called exactly when set_system_pw is True and the old-password check has not
\* failed; it is called at most once, and the call lies between the entry of
\* pw_form_cb and its return of ("edit_config", patch).
C19_SetPasswordCall ==
  (kind = "Password" /\ Saved /\ valid) =>
    /\ SetPasswordCalls # {} <=> (Values["set_system_pw"] = TRUE /\ ~WrongOldPassword)
    /\ Cardinality(SetPasswordCalls) <= 1
    /\ \A i \in SetPasswordCalls :
          /\ trace[i].arg = <<S("root"), Values["password"]>>
          /\ InsideCallback(i, "pw_form_cb", "edit_config")
          /\ results[1].action = "edit_config"

C19_Witness ==
  /\ kind = "Password" /\ Saved /\ valid /\ change
  /\ Has(cfg, "uci.foris.auth.password")
  /\ ~WrongOldPassword
  /\ Values["set_system_pw"] = TRUE
  /\ Cardinality(SetPasswordCalls) = 1
  /\ \A i \in SetPasswordCalls : InsideCallback(i, "pw_form_cb", "edit_config")

\* the names of the package lists whose install_<name> field is checked
Checked ==
  {pkg_list[j] : j \in {x \in DOMAIN pkg_list :
                          /\ Has(CbData, "install_" \o pkg_list[x])
                          /\ CbData["install_" \o pkg_list[x]] = TRUE}}

\* the positions of the trace at which check_updates is called
CheckUpdatesCalls ==
  {i \in DOMAIN trace : trace[i].ev = "call" /\ trace[i].name = "check_updates"}

\* C20: the UpdaterHandler patch is one operation on list lists of section pkglists of
\* config updater: when some install_<name> field is checked, a replace whose values
\* are the checked names, each once, indexed 0, 1, ... in order; when none is checked,
\* a remove.  On a successful save check_updates() is called exactly once, after
\* package_lists_form_cb has returned.
C20_UpdaterPatchAndCheck ==
  (kind = "Updater" /\ Saved /\ valid) =>
    /\ Len(Patch) = 1
    /\ Patch[1].config = "updater"
    /\ Patch[1].section = S("pkglists")
    /\ Patch[1].name = "lists"
    /\ Checked # {} =>
          /\ Patch[1].op = "replace"
          /\ Len(Patch[1].val) = Cardinality(Checked)
          /\ \A j \in DOMAIN Patch[1].val : Patch[1].val[j].index = j - 1
          /\ {Patch[1].val[j].content : j \in DOMAIN Patch[1].val} = {S(n) : n \in Checked}
    /\ Checked = {} => Patch = <<OpRemove("updater", S("pkglists"), "pkglists", "lists")>>
    /\ Cardinality(CheckUpdatesCalls) = 1
    /\ \A i \in CheckUpdatesCalls :
          /\ trace[i].arg = <<>>
          /\ \E r \in 1..(i - 1) :
                trace[r] = Ev("return", "package_lists_form_cb", S("edit_config"))

C20_Witness ==
  /\ kind = "Updater" /\ Saved /\ valid
  /\ Checked = {"l1", "l2"}
  /\ Patch[1].op = "replace"
  /\ Len(Patch[1].val) = 2
  /\ Cardinality(CheckUpdatesCalls) = 1

LanSaved == kind = "Lan" /\ Saved /\ valid

\* the positions of patch p that touch option or list name of section lan of config dhcp
DhcpLanOps(p, name) ==
  {i \in DOMAIN p : p[i].config = "dhcp" /\ p[i].section = S("lan") /\ p[i].name = name}

\* C21: the LAN patch sets network.lan.ipaddr to lan_ipaddr and replaces the list
\* dhcp.lan.dhcp_option with the single value "6,<lan_ipaddr>"; with dhcp_enabled
\* true it sets ignore to "0", start to dhcp_min and limit to dhcp_max; with
\* dhcp_enabled false it sets ignore to "1" and holds no start and no limit.
C21_LanPatch ==
  LanSaved =>
    /\ SetsTo(Patch, "network", S("lan"), "ipaddr", Values["lan_ipaddr"])
    /\ Cardinality(DhcpLanOps(Patch, "dhcp_option")) = 1
    /\ \A i \in DhcpLanOps(Patch, "dhcp_option") :
          /\ Patch[i].op = "replace"
          /\ Patch[i].val = <<Value(0, S("6,") \o Values["lan_ipaddr"])>>
    /\ Cardinality(DhcpLanOps(Patch, "ignore")) = 1
    /\ Values["dhcp_enabled"] = TRUE =>
          /\ SetsTo(Patch, "dhcp", S("lan"), "ignore", S("0"))
          /\ SetsTo(Patch, "dhcp", S("lan"), "start", Values["dhcp_min"])
          /\ SetsTo(Patch, "dhcp", S("lan"), "limit", Values["dhcp_max"])
    /\ Values["dhcp_enabled"] # TRUE =>
          /\ SetsTo(Patch, "dhcp", S("lan"), "ignore", S("1"))
          /\ DhcpLanOps(Patch, "start") = {}
          /\ DhcpLanOps(Patch, "limit") = {}

C21_Witness ==
  /\ LanSaved
  /\ Values["dhcp_enabled"] = TRUE
  /\ Values["lan_ipaddr"] = S("192.168.1.1")
  /\ SetsTo(Patch, "dhcp", S("lan"), "start", S("100"))
  /\ SetsTo(Patch, "dhcp", S("lan"), "limit", S("150"))
  /\ \E i \in DOMAIN Patch :
        Patch[i].op = "replace" /\ Patch[i].val = <<Value(0, <<"6,", "192.168.1.1">>)>>

NotificationsSaved == kind = "Notifications" /\ Saved /\ valid

SmtpSets(name) == SetsTo(Patch, "user_notify", S("smtp"), name, Values[name])

\* the patch holds an operation on an option or list called name
Touches(p, name) == \E i \in DOMAIN p : p[i].name = name

CustomServerOptions == {"server", "port", "username", "password", "security", "from"}

\* the non-empty pieces of text s between single spaces, in order
Tokens(s) == SelectSeq(split(s), LAMBDA x : x # <<>>)

\* C22: the notifications patch sets smtp.enable, reboot.time and reboot.delay; with
\* enable_smtp false it holds nothing else; with enable_smtp true it sets
\* use_turris_smtp, replaces the list smtp.to with the non-empty space-separated
\* tokens of the recipients in order, sets notifications.severity and
\* notifications.news, and sets server, port, username, password, security and from
\* when use_turris_smtp is "0", sender_name otherwise, never options of both groups.
C22_NotificationsPatch ==
  NotificationsSaved =>
    /\ SetsTo(Patch, "user_notify", S("smtp"), "enable", Values["enable_smtp"])
    /\ SetsTo(Patch, "user_notify", S("reboot"), "time", Values["reboot_time"])
    /\ SetsTo(Patch, "user_notify", S("reboot"), "delay", Values["delay"])
    /\ Values["enable_smtp"] # TRUE => Len(Patch) = 3
    /\ Values["enable_smtp"] = TRUE =>
          /\ SmtpSets("use_turris_smtp")
          /\ \E i \in DOMAIN Patch :
                /\ Patch[i] = OpReplace("user_notify", S("smtp"), "smtp", "to", Patch[i].val)
                /\ [j \in DOMAIN Patch[i].val |-> Patch[i].val[j].content]
                     = Tokens(Values["to"])
                /\ \A k \in DOMAIN Patch : Patch[k].name = "to" => k = i
          /\ SetsTo(Patch, "user_notify", S("notifications"), "severity", Values["severity"])
          /\ SetsTo(Patch, "user_notify", S("notifications"), "news", Values["news"])
          /\ Values["use_turris_smtp"] = S("0") =>
                /\ \A n \in CustomServerOptions : SmtpSets(n)
                /\ ~Touches(Patch, "sender_name")
          /\ Values["use_turris_smtp"] # S("0") =>
                /\ SmtpSets("sender_name")
                /\ \A n \in CustomServerOptions : ~Touches(Patch, n)

C22_Witness ==
  /\ NotificationsSaved
  /\ Values["enable_smtp"] = TRUE
  /\ Values["use_turris_smtp"] = S("0")
  /\ Values["to"] = <<"a@example.com", SP, SP, "b@example.com">>
  /\ \E i \in DOMAIN Patch :
        /\ Patch[i].op = "replace" /\ Patch[i].name = "to"
        /\ Len(Patch[i].val) = 2
        /\ Patch[i].val[2].content = S("b@example.com")
  /\ SmtpSets("server")

\* use_smrt as the callback receives it
UseSmrt == Get(CbData, "use_smrt", FALSE)

\* the VLAN number of the connection: the submitted smrt_vlan, or 848 when it is empty
Vlan ==
  IF Truthy(Get(CbData, "smrt_vlan", None)) THEN CbData["smrt_vlan"] ELSE S("848")

\* the positions of the patch that write the list connections of smrtd section eth2
ConnectionsWrites ==
  {i \in DOMAIN Patch :
     /\ Patch[i].config = "smrtd" /\ Patch[i].section = S("eth2")
     /\ Patch[i].name = "connections" /\ Patch[i].op # "remove"}

\* C23, as claimed: with smrtd configured the WAN patch sets network.wan.ifname to
\* "eth2" when use_smrt is false or absent and to "eth2.<vlan>" when it is true,
\* <vlan> being the submitted smrt_vlan or "848" when that is empty; it sets
\* smrtd.global.enabled to use_smrt; whenever it writes the list eth2.connections the
\* single value is "<vlan> <vpi> <vci>" with that same VLAN number.  Without smrtd
\* the patch holds no smrtd operation and no wan ifname.
C23_SmrtdPatch ==
  WanSaved =>
    /\ wan_has_smrtd(cfg) =>
          /\ UseSmrt # TRUE => SetsTo(Patch, "network", S("wan"), "ifname", S("eth2"))
          /\ UseSmrt = TRUE =>
                SetsTo(Patch, "network", S("wan"), "ifname", <<"eth2", ".">> \o Vlan)
          /\ SetsTo(Patch, "smrtd", S("global"), "enabled", UseSmrt)
          /\ \A i \in ConnectionsWrites :
                Patch[i].val = <<Value(1, Vlan \o <<SP>> \o CbData["smrt_vpi"]
                                           \o <<SP>> \o CbData["smrt_vci"])>>
    /\ ~wan_has_smrtd(cfg) =>
          /\ \A i \in DOMAIN Patch : Patch[i].config # "smrtd"
          /\ ~Touches(Patch, "ifname") \/ ~WanSection(Patch, "set", "ifname")

WifiEnabledSaved == kind = "Wifi" /\ Saved /\ valid /\ Values["wifi_enabled"] = TRUE

WifiDeviceSets(name, val) == SetsTo(Patch, "wireless", S("radio0"), name, val)
WifiIfaceSets(name, val) == SetsTo(Patch, "wireless", Values["iface_section"], name, val)

\* the card reports at least one channel that is not disabled
HasEnabledChannel == \E i \in DOMAIN stats[1] : ~stats[1][i].disabled

\* the callback finds no channel in its data and falls back to "auto"
FallbackChannel ==
  /\ ~Truthy(Get(CbData, "channel2g4", None))
  /\ ~Truthy(Get(CbData, "channel5g", None))

\* C24, as claimed: with wifi_enabled true the Wi-Fi patch sets ssid, hidden,
\* encryption "psk2+tkip+aes", key, htmode and exactly one channel; on a dual-band
\* card the channel is the submitted channel5g under hwmode "11a" and the submitted
\* channel2g4 under hwmode "11g"; a card with an enabled channel has a channel
\* field, and the fallback channel is written only for a card with no enabled channel.
C24_WifiChannel ==
  WifiEnabledSaved =>
    /\ WifiIfaceSets("ssid", Values["ssid"])
    /\ WifiIfaceSets("hidden", Values["ssid_hidden"])
    /\ WifiIfaceSets("encryption", S("psk2+tkip+aes"))
    /\ WifiIfaceSets("key", Values["key"])
    /\ WifiDeviceSets("htmode", Values["htmode"])
    /\ Cardinality({i \in DOMAIN Patch : Patch[i].name = "channel"}) = 1
    /\ (is_dual_band(stats) /\ Values["hwmode"] = S("11a"))
         => WifiDeviceSets("channel", Values["channel5g"])
    /\ (is_dual_band(stats) /\ Values["hwmode"] = S("11g"))
         => WifiDeviceSets("channel", Values["channel2g4"])
    /\ HasEnabledChannel =>
         /\ {"channel2g4", "channel5g"} \cap FieldNames(form_cache) # {}
         /\ ~FallbackChannel

\* the cached form is the one get_form() built, extra callbacks aside
SameForm ==
  LET built == get_form(kind, change, cfg, stats, pkg_list)
  IN /\ form_cache.name = built.name
     /\ form_cache.sections = built.sections
     /\ form_cache.fields = built.fields
     /\ SubSeq(form_cache.callbacks, 1, Len(built.callbacks)) = built.callbacks

\* C25, as claimed: get_form() runs at most once per handler instance however often
\* the form property and save() are used, every access yields the same form, and
\* save() always works on a form that exists.
C25_FormBuiltOnce ==
  /\ get_form_calls <= 1
  /\ form_cache.exists => SameForm
  /\ saves > 0 => form_cache.exists

\* the services the snapshot lists in fakes.disable
DisabledInSnapshot ==
  IF Has(cfg, "uci.ucollect.fakes.disable")
  THEN {cfg["uci.ucollect.fakes.disable"][i] : i \in DOMAIN cfg["uci.ucollect.fakes.disable"]}
  ELSE {}

KnownServices == {SERVICES_OPTIONS[i] : i \in DOMAIN SERVICES_OPTIONS}

\* the value of field services when nothing is submitted
PrefilledServices == FormValues(form_cache, cfg, EmptyFn)["services"]

\* the positions of the patch that touch the list disable of section fakes
DisableOps ==
  {i \in DOMAIN Patch :
     /\ Patch[i].config = "ucollect" /\ Patch[i].section = S("fakes")
     /\ Patch[i].name = "disable"}

\* the form was saved with field services as prefilled
SavedUnchanged == Saved /\ valid /\ Values["services"] = PrefilledServices

\* C26: for a snapshot whose fakes.disable list is a set D of known services, field
\* services is prefilled with exactly the known services not in D, and saving that
\* value unchanged gives a patch that keeps the disabled set equal to D: one replace
\* with exactly the members of D when D is not empty, a remove or nothing otherwise.
C26_UcollectRoundTrip ==
  (kind = "Ucollect" /\ form_cache.exists /\ DisabledInSnapshot \subseteq KnownServices) =>
    /\ {PrefilledServices[i] : i \in DOMAIN PrefilledServices}
         = KnownServices \ DisabledInSnapshot
    /\ Len(PrefilledServices) = Cardinality(KnownServices \ DisabledInSnapshot)
    /\ (SavedUnchanged /\ DisabledInSnapshot # {}) =>
          /\ Cardinality(DisableOps) = 1
          /\ \A i \in DisableOps :
                /\ Patch[i].op = "replace"
                /\ {Patch[i].val[j].content : j \in DOMAIN Patch[i].val} = DisabledInSnapshot
                /\ Len(Patch[i].val) = Cardinality(DisabledInSnapshot)
    /\ (SavedUnchanged /\ DisabledInSnapshot = {}) =>
          \A i \in DisableOps : Patch[i].op = "remove"

C26_Witness ==
  /\ kind = "Ucollect" /\ SavedUnchanged
  /\ DisabledInSnapshot = {S("23tcp")}
  /\ PrefilledServices = <<>>
  /\ \E i \in DisableOps : Patch[i].op = "replace" /\ Patch[i].val = <<Value(0, S("23tcp"))>>

====
